---- MODULE Spec2Model ----
(***************************************************************************)
(* A model of the ATT connection of yskszk63/gatt (att/src/server2.rs),    *)
(* its packet codec (att/src/packet.rs, att/src/packet/pack.rs,            *)
(* att/src/uuid.rs), the default Handler (att/src/handler.rs) and the      *)
(* GATT handler (gatt/src/server.rs) over the attribute database           *)
(* (gatt/src/database.rs, gatt/src/attribute.rs).                          *)
(*                                                                         *)
(* Datagrams and PDUs on the wire are sequences of bytes (0..255).         *)
(* Tasks (the run future and the application's Notification / Indication   *)
(* writers) are polled by an executor: a task that returned Pending is     *)
(* polled again only after one of the wakers it registered has fired.      *)
(***************************************************************************)
EXTENDS Integers, Sequences, FiniteSets, TLC

(***************************************************************************)
(* Bounds of the model.                                                    *)
(***************************************************************************)
MaxIngress == 2      \* datagrams the peer sends on one connection
MaxFills == 1        \* times the socket's send buffer becomes full
MaxWrites == 2       \* writes the application issues on its handles
MaxRequests == 3     \* datagrams the peer sends to a GATT connection

(***************************************************************************)
(* Program constants.                                                      *)
(***************************************************************************)
DEFAULT_MTU == 23

OpErrorResponse == 1
OpExchangeMtuRequest == 2
OpExchangeMtuResponse == 3
OpFindInformationRequest == 4
OpFindInformationResponse == 5
OpFindByTypeValueRequest == 6
OpFindByTypeValueResponse == 7
OpReadByTypeRequest == 8
OpReadByTypeResponse == 9
OpReadRequest == 10
OpReadResponse == 11
OpReadBlobRequest == 12
OpReadBlobResponse == 13
OpReadMultipleRequest == 14
OpReadMultipleResponse == 15
OpReadByGroupTypeRequest == 16
OpReadByGroupTypeResponse == 17
OpWriteRequest == 18
OpWriteResponse == 19
OpPrepareWriteRequest == 22
OpPrepareWriteResponse == 23
OpExecuteWriteRequest == 24
OpExecuteWriteResponse == 25
OpHandleValueNotification == 27
OpHandleValueIndication == 29
OpHandleValueConfirmation == 30
OpWriteCommand == 82
OpSignedWriteCommand == 210

\* ErrorCode::pack
EcInvalidHandle == 1
EcReadNotPermitted == 2
EcWriteNotPermitted == 3
EcInsufficientAuthentication == 5
EcRequestNotSupported == 6
EcInsufficientAuthorization == 8
EcAttributeNotFound == 10
EcInvalidAttributeValueLength == 13

\* the opcodes of the packet! table: OpCode::unpack accepts exactly these
OpCodes ==
    {OpErrorResponse, OpExchangeMtuRequest, OpExchangeMtuResponse,
     OpFindInformationRequest, OpFindInformationResponse,
     OpFindByTypeValueRequest, OpFindByTypeValueResponse,
     OpReadByTypeRequest, OpReadByTypeResponse, OpReadRequest, OpReadResponse,
     OpReadBlobRequest, OpReadBlobResponse, OpReadMultipleRequest,
     OpReadMultipleResponse, OpReadByGroupTypeRequest,
     OpReadByGroupTypeResponse, OpWriteRequest, OpWriteResponse,
     OpPrepareWriteRequest, OpPrepareWriteResponse, OpExecuteWriteRequest,
     OpExecuteWriteResponse, OpHandleValueNotification,
     OpHandleValueIndication, OpHandleValueConfirmation, OpWriteCommand,
     OpSignedWriteCommand}

\* the device_recv! list: the PDUs a server decodes
DeviceRecvOps ==
    {OpExchangeMtuRequest, OpFindInformationRequest, OpFindByTypeValueRequest,
     OpReadByTypeRequest, OpReadRequest, OpReadBlobRequest,
     OpReadMultipleRequest, OpReadByGroupTypeRequest, OpWriteRequest,
     OpPrepareWriteRequest, OpExecuteWriteRequest, OpWriteCommand,
     OpSignedWriteCommand, OpHandleValueConfirmation}

(***************************************************************************)
(* Bytes.                                                                  *)
(***************************************************************************)
Min(a, b) == IF a < b THEN a ELSE b

Take(s, n) == SubSeq(s, 1, Min(n, Len(s)))

Drop(s, n) == SubSeq(s, n + 1, Len(s))

\* u16::pack: to_le_bytes
PackU16(v) == <<v % 256, v \div 256>>

\* u16::from_le_bytes
U16FromLe(b) == b[1] + 256 * b[2]

(***************************************************************************)
(* Unpack.  A reader is the sequence of bytes not yet consumed.  Every     *)
(* unpack yields [ok, v, rest] or [ok |-> FALSE, err].                     *)
(***************************************************************************)
UnpackErr(e) == [ok |-> FALSE, err |-> e]

\* pack.rs fill + [u8; N]::unpack: nothing read is NoDataAvailable, a short
\* read is an UnexpectedEof i/o error
UnpackArray(r, n) ==
    IF Len(r) = 0 THEN UnpackErr("NoDataAvailable")
    ELSE IF Len(r) < n THEN UnpackErr("Io")
    ELSE [ok |-> TRUE, v |-> Take(r, n), rest |-> Drop(r, n)]

UnpackU8(r) ==
    LET a == UnpackArray(r, 1)
    IN  IF a.ok THEN [ok |-> TRUE, v |-> a.v[1], rest |-> a.rest] ELSE a

UnpackU16(r) ==
    LET a == UnpackArray(r, 2)
    IN  IF a.ok THEN [ok |-> TRUE, v |-> U16FromLe(a.v), rest |-> a.rest] ELSE a

\* Box<[u8]>::unpack: read_to_end
UnpackBytes(r) == [ok |-> TRUE, v |-> r, rest |-> <<>>]

\* Uuid::unpack: reads the rest of the reader into a buffer, then unpacks
\* the UUID from the same, now exhausted, reader
UnpackUuid(r) ==
    LET buf == UnpackBytes(r)
    IN  IF Len(buf.v) \in {2, 16}
        THEN LET u == UnpackArray(buf.rest, Len(buf.v))
             IN  IF u.ok
                 THEN [ok |-> TRUE, v |-> u.v, rest |-> u.rest]
                 ELSE u
        ELSE UnpackErr("Unexpected")

\* RemainingVec<Handle>::unpack: items until NoDataAvailable
RECURSIVE UnpackHandles(_)
UnpackHandles(r) ==
    LET h == UnpackU16(r)
    IN  IF h.ok
        THEN LET t == UnpackHandles(h.rest)
             IN  IF t.ok
                 THEN [ok |-> TRUE, v |-> <<h.v>> \o t.v, rest |-> <<>>]
                 ELSE t
        ELSE IF h.err = "NoDataAvailable"
             THEN [ok |-> TRUE, v |-> <<>>, rest |-> <<>>]
             ELSE h

\* packable_struct! unpack of a body made of two handles
UnpackRange(r) ==
    LET s == UnpackU16(r)
    IN  IF ~s.ok THEN s
        ELSE LET e == UnpackU16(s.rest)
             IN  IF ~e.ok THEN e
                 ELSE [ok |-> TRUE, v |-> <<s.v, e.v>>, rest |-> e.rest]

\* DeviceRecv::unpack: the opcode, then the packable_struct! unpack of the
\* PDU of that opcode, field by field
DeviceRecvUnpack(d) ==
    LET o == UnpackU8(d)
    IN  IF ~o.ok THEN o
        ELSE IF o.v \notin OpCodes \/ o.v \notin DeviceRecvOps
        THEN UnpackErr("Unexpected")
        ELSE
        LET r == o.rest
        IN  CASE o.v = OpExchangeMtuRequest ->
                 LET m == UnpackU16(r)
                 IN  IF m.ok THEN [ok |-> TRUE, pdu |-> [op |-> o.v, client_rx_mtu |-> m.v]]
                     ELSE m
              [] o.v = OpFindInformationRequest ->
                 LET g == UnpackRange(r)
                 IN  IF g.ok
                     THEN [ok |-> TRUE, pdu |-> [op |-> o.v, starting_handle |-> g.v[1],
                                                 ending_handle |-> g.v[2]]]
                     ELSE g
              [] o.v = OpFindByTypeValueRequest ->
                 LET g == UnpackRange(r)
                 IN  IF ~g.ok THEN g
                     ELSE LET t == UnpackU16(g.rest)
                          IN  IF ~t.ok THEN t
                              ELSE [ok |-> TRUE,
                                    pdu |-> [op |-> o.v, starting_handle |-> g.v[1],
                                             ending_handle |-> g.v[2],
                                             attribute_type |-> t.v,
                                             attribute_value |-> t.rest]]
              [] o.v \in {OpReadByTypeRequest, OpReadByGroupTypeRequest} ->
                 LET g == UnpackRange(r)
                 IN  IF ~g.ok THEN g
                     ELSE LET u == UnpackUuid(g.rest)
                          IN  IF ~u.ok THEN u
                              ELSE [ok |-> TRUE,
                                    pdu |-> [op |-> o.v, starting_handle |-> g.v[1],
                                             ending_handle |-> g.v[2],
                                             attribute_type |-> u.v]]
              [] o.v = OpReadRequest ->
                 LET h == UnpackU16(r)
                 IN  IF h.ok THEN [ok |-> TRUE, pdu |-> [op |-> o.v, attribute_handle |-> h.v]]
                     ELSE h
              [] o.v = OpReadBlobRequest ->
                 LET g == UnpackRange(r)
                 IN  IF g.ok
                     THEN [ok |-> TRUE, pdu |-> [op |-> o.v, attribute_handle |-> g.v[1],
                                                 attribute_offset |-> g.v[2]]]
                     ELSE g
              [] o.v = OpReadMultipleRequest ->
                 LET s == UnpackHandles(r)
                 IN  IF s.ok THEN [ok |-> TRUE, pdu |-> [op |-> o.v, set_of_handles |-> s.v]]
                     ELSE s
              [] o.v \in {OpWriteRequest, OpWriteCommand} ->
                 LET h == UnpackU16(r)
                 IN  IF h.ok
                     THEN [ok |-> TRUE, pdu |-> [op |-> o.v, attribute_handle |-> h.v,
                                                 attribute_value |-> h.rest]]
                     ELSE h
              [] o.v = OpSignedWriteCommand ->
                 \* attribute_value reads to the end, authentication_signature
                 \* reads what is left
                 LET h == UnpackU16(r)
                 IN  IF h.ok
                     THEN LET b == UnpackBytes(h.rest)
                          IN  [ok |-> TRUE,
                               pdu |-> [op |-> o.v, attribute_handle |-> h.v,
                                        attribute_value |-> b.v,
                                        authentication_signature |->
                                            UnpackBytes(b.rest).v]]
                     ELSE h
              [] o.v = OpPrepareWriteRequest ->
                 LET g == UnpackRange(r)
                 IN  IF g.ok
                     THEN [ok |-> TRUE, pdu |-> [op |-> o.v, attribute_handle |-> g.v[1],
                                                 value_offset |-> g.v[2],
                                                 part_attribute_value |-> g.rest]]
                     ELSE g
              [] o.v = OpExecuteWriteRequest ->
                 LET f == UnpackU8(r)
                 IN  IF f.ok THEN [ok |-> TRUE, pdu |-> [op |-> o.v, flags |-> f.v # 0]]
                     ELSE f
              [] o.v = OpHandleValueConfirmation ->
                 [ok |-> TRUE, pdu |-> [op |-> o.v]]

(***************************************************************************)
(* Pack.                                                                   *)
(***************************************************************************)
\* DeviceSend::pack_with_code: the opcode, then the packable_struct! pack of
\* the fields in declaration order
PackWithCode(p) ==
    CASE p.op = OpErrorResponse ->
            <<p.op, p.request_opcode_in_error>>
                \o PackU16(p.attribute_handle_in_error) \o <<p.error_code>>
      [] p.op = OpExchangeMtuResponse -> <<p.op>> \o PackU16(p.server_rx_mtu)
      [] p.op \in {OpReadResponse, OpReadBlobResponse} -> <<p.op>> \o p.attribute_value
      [] p.op \in {OpWriteResponse, OpExecuteWriteResponse} -> <<p.op>>
      [] p.op \in {OpHandleValueNotification, OpHandleValueIndication} ->
            <<p.op>> \o PackU16(p.attribute_handle) \o p.attribute_value
      [] p.op = OpPrepareWriteResponse ->
            <<p.op>> \o PackU16(p.attribute_handle) \o PackU16(p.value_offset)
                \o p.part_attribute_value

\* pkt::ErrorResponse::new(R::opcode(), handle, code)
NewErrorResponse(opcode, handle, code) ==
    [op |-> OpErrorResponse, request_opcode_in_error |-> opcode,
     attribute_handle_in_error |-> handle, error_code |-> code]

(***************************************************************************)
(* The list responses.  A response is [op, values]; an entry of values is  *)
(* [handle, uuid] (Find Information), [handle, end] (Find By Type Value),  *)
(* [handle, value] (Read By Type) or [handle, end, value] (Read By Group   *)
(* Type).  A Uuid is its 2 or 16 bytes.                                    *)
(***************************************************************************)
ListResponseOps ==
    {OpFindInformationResponse, OpFindByTypeValueResponse, OpReadByTypeResponse,
     OpReadByGroupTypeResponse}

\* Size::size of one entry: a Handle is 2 bytes, a Uuid 2 or 16, a value
\* its length, a tuple the sum of its fields
ItemSize(op, e) ==
    CASE op = OpFindInformationResponse -> 2 + Len(e.uuid)
      [] op = OpFindByTypeValueResponse -> 2 + 2
      [] op = OpReadByTypeResponse -> 2 + Len(e.value)
      [] op = OpReadByGroupTypeResponse -> 2 + 2 + Len(e.value)

\* the bytes truncate sets aside: `mtu - 2`, `mtu - 1` for Find By Type Value
ListHeader(op) == IF op = OpFindByTypeValueResponse THEN 1 ELSE 2

\* a truncate that sets nothing aside
ListBudgetWhole(op, mtu) == mtu

\* let mut remaining = mtu - 2
ListBudget(op, mtu) == mtu - ListHeader(op)

\* the loop of truncate: the number of leading entries that fit
RECURSIVE KeptLen(_, _, _)
KeptLen(op, items, remaining) ==
    IF items = <<>> THEN 0
    ELSE IF ItemSize(op, Head(items)) > remaining THEN 0
    ELSE 1 + KeptLen(op, Tail(items), remaining - ItemSize(op, Head(items)))

\* pack of one entry
PackItem(op, e) ==
    CASE op = OpFindInformationResponse -> PackU16(e.handle) \o e.uuid
      [] op = OpFindByTypeValueResponse -> PackU16(e.handle) \o PackU16(e.end)
      [] op = OpReadByTypeResponse -> PackU16(e.handle) \o e.value
      [] op = OpReadByGroupTypeResponse ->
            PackU16(e.handle) \o PackU16(e.end) \o e.value

RECURSIVE PackItems(_, _)
PackItems(op, items) ==
    IF items = <<>> THEN <<>>
    ELSE PackItem(op, Head(items)) \o PackItems(op, Tail(items))

\* the byte AttributeDataList::pack writes before the entries: the format
\* of the first Uuid, or the length of the first entry, as u8
ListFormat(op, head) ==
    CASE op = OpFindInformationResponse -> IF Len(head.uuid) = 2 THEN 1 ELSE 2
      [] op = OpReadByTypeResponse -> (Len(head.value) + 2) % 256
      [] op = OpReadByGroupTypeResponse -> (Len(head.value) + 4) % 256

\* pack_data panics on an entry whose Uuid format or value length is not
\* that of the first entry
ListUniform(op, items) ==
    \A i \in 1..Len(items) :
        IF op = OpFindInformationResponse
        THEN Len(items[i].uuid) = Len(items[1].uuid)
        ELSE Len(items[i].value) = Len(items[1].value)

\* Packet::pack_with_code of a list response
PackListResponse(p) ==
    IF p.op = OpFindByTypeValueResponse
    THEN [panic |-> FALSE, bytes |-> <<p.op>> \o PackItems(p.op, p.values)]
    ELSE IF p.values = <<>> THEN [panic |-> FALSE, bytes |-> <<p.op, 0>>]
    ELSE IF ~ListUniform(p.op, p.values) THEN [panic |-> TRUE, bytes |-> <<>>]
    ELSE [panic |-> FALSE,
          bytes |-> <<p.op, ListFormat(p.op, p.values[1])>>
                        \o PackItems(p.op, p.values)]

(***************************************************************************)
(* Response::truncate.  usize subtraction: `mtu - 1` with mtu = 0 panics   *)
(* in a build with overflow checks and wraps in one without, so the        *)
(* result is a set of outcomes.  A wrapped budget keeps every entry.       *)
(***************************************************************************)
Truncate(p, mtu) ==
    IF p.op \in {OpReadResponse, OpReadBlobResponse}
    THEN IF mtu < 1
         THEN {[panic |-> TRUE, pdu |-> p], [panic |-> FALSE, pdu |-> p]}
         ELSE {[panic |-> FALSE,
                pdu |-> IF Len(p.attribute_value) > mtu - 1
                        THEN [p EXCEPT !.attribute_value = Take(@, mtu - 1)]
                        ELSE p]}
    ELSE IF p.op = OpPrepareWriteResponse
    THEN IF mtu < 1
         THEN {[panic |-> TRUE, pdu |-> p], [panic |-> FALSE, pdu |-> p]}
         ELSE {[panic |-> FALSE,
                pdu |-> IF Len(p.part_attribute_value) > mtu - 1
                        THEN [p EXCEPT !.part_attribute_value = Take(@, mtu - 1)]
                        ELSE p]}
    ELSE IF p.op \in ListResponseOps
    THEN IF mtu < ListHeader(p.op)
         THEN {[panic |-> TRUE, pdu |-> p], [panic |-> FALSE, pdu |-> p]}
         ELSE {[panic |-> FALSE,
                pdu |-> [p EXCEPT !.values =
                            Take(@, KeptLen(p.op, @, ListBudget(p.op, mtu)))]]}
    ELSE {[panic |-> FALSE, pdu |-> p]}

(***************************************************************************)
(* gatt: attributes and the database.  An attribute is a record            *)
(* [variant, permission, value]; the database maps handles to attributes.  *)
(***************************************************************************)
\* Attribute::permission
Permission(a) ==
    IF a.variant \in {"Service", "Characteristic"} THEN {"READABLE"} ELSE a.permission

\* permission checks that ask for authentication before authorization
AccessErrorAuthenticationFirst(a, need, authorized, authenticated) ==
    IF need \notin Permission(a) THEN "PermissionDenied"
    ELSE IF ~authenticated /\ "AUTHENTICATION_REQUIRED" \in Permission(a)
    THEN "AuthenticationRequired"
    ELSE IF ~authorized /\ "AUTHORIZATION_REQUIRED" \in Permission(a)
    THEN "AuthorizationRequired"
    ELSE "none"

\* the permission checks shared by Attribute::get and Attribute::set
AccessError(a, need, authorized, authenticated) ==
    IF need \notin Permission(a) THEN "PermissionDenied"
    ELSE IF ~authorized /\ "AUTHORIZATION_REQUIRED" \in Permission(a)
    THEN "AuthorizationRequired"
    ELSE IF ~authenticated /\ "AUTHENTICATION_REQUIRED" \in Permission(a)
    THEN "AuthenticationRequired"
    ELSE "none"

\* the Client and the Server Characteristic Configuration descriptors
ConfigurationVariants ==
    {"ClientCharacteristicConfiguration", "ServerCharacteristicConfiguration"}

\* the bit of each flag of ClientCharacteristicConfiguration and of
\* ServerCharacteristicConfiguration
ConfigurationBits(variant) ==
    IF variant = "ClientCharacteristicConfiguration"
    THEN [f \in {"NOTIFICATION", "INDICATION"} |-> IF f = "NOTIFICATION" THEN 1 ELSE 2]
    ELSE [f \in {"BROADCAST"} |-> 1]

\* bitflags from_bits_truncate: the flags whose bit is set
FromBitsTruncate(variant, v) ==
    {f \in DOMAIN ConfigurationBits(variant) :
        (v \div ConfigurationBits(variant)[f]) % 2 = 1}

\* bitflags bits()
RECURSIVE ConfigurationValue(_, _)
ConfigurationValue(variant, flags) ==
    IF flags = {} THEN 0
    ELSE LET f == CHOOSE x \in flags : TRUE
         IN  ConfigurationBits(variant)[f] + ConfigurationValue(variant, flags \ {f})

\* Attribute::get
AttributeGet(a, authorized, authenticated) ==
    LET e == AccessError(a, "READABLE", authorized, authenticated)
    IN  IF e # "none" THEN [ok |-> FALSE, err |-> e, attr |-> a]
        ELSE IF a.variant \in ConfigurationVariants
        THEN [ok |-> TRUE, err |-> "none",
              v |-> PackU16(ConfigurationValue(a.variant, a.configuration))]
        ELSE [ok |-> TRUE, err |-> "none", v |-> a.value]

\* a set that appends the bytes to the value instead of replacing it
AttributeSetAppending(a, val, authorized, authenticated) ==
    LET e == AccessError(a, "WRITEABLE", authorized, authenticated)
    IN  IF e # "none" THEN [ok |-> FALSE, err |-> e, attr |-> a]
        ELSE [ok |-> TRUE, err |-> "none", attr |-> [a EXCEPT !.value = @ \o val]]

\* a set that stores the configuration before it checks the length
AttributeSetStoreFirst(a, val, authorized, authenticated) ==
    LET e == AccessError(a, "WRITEABLE", authorized, authenticated)
    IN  IF e # "none" THEN [ok |-> FALSE, err |-> e, attr |-> a]
        ELSE CASE a.variant = "Service" ->
                    IF Len(val) \in {2, 16}
                    THEN [ok |-> TRUE, err |-> "none", attr |-> [a EXCEPT !.value = val]]
                    ELSE [ok |-> FALSE, err |-> "InvalidDataLength", attr |-> a]
               [] a.variant \in {"CharacteristicValue", "Descriptor"} ->
                    [ok |-> TRUE, err |-> "none", attr |-> [a EXCEPT !.value = val]]
               [] a.variant \in ConfigurationVariants ->
                    IF Len(val) < 2
                    THEN [ok |-> FALSE, err |-> "InvalidDataLength",
                          attr |-> [a EXCEPT !.configuration = {}]]
                    ELSE [ok |-> TRUE, err |-> "none",
                          attr |-> [a EXCEPT !.configuration =
                                        FromBitsTruncate(a.variant, U16FromLe(val))]]

\* Attribute::set
AttributeSet(a, val, authorized, authenticated) ==
    LET e == AccessError(a, "WRITEABLE", authorized, authenticated)
    IN  IF e # "none" THEN [ok |-> FALSE, err |-> e, attr |-> a]
        ELSE CASE a.variant = "Service" ->
                    IF Len(val) \in {2, 16}
                    THEN [ok |-> TRUE, err |-> "none", attr |-> [a EXCEPT !.value = val]]
                    ELSE [ok |-> FALSE, err |-> "InvalidDataLength", attr |-> a]
               [] a.variant \in {"CharacteristicValue", "Descriptor"} ->
                    [ok |-> TRUE, err |-> "none", attr |-> [a EXCEPT !.value = val]]
               [] a.variant \in ConfigurationVariants ->
                    \* from_bits_truncate(val.get_u16_le())
                    IF Len(val) < 2
                    THEN [ok |-> FALSE, err |-> "InvalidDataLength", attr |-> a]
                    ELSE [ok |-> TRUE, err |-> "none",
                          attr |-> [a EXCEPT !.configuration =
                                        FromBitsTruncate(a.variant, U16FromLe(val))]]

\* the match arms of Database::read / Database::write on the attribute error
ReadErrorCode(e) ==
    CASE e = "PermissionDenied" -> EcReadNotPermitted
      [] e = "AuthorizationRequired" -> EcInsufficientAuthorization
      [] e = "AuthenticationRequired" -> EcInsufficientAuthentication

WriteErrorCode(e) ==
    CASE e = "PermissionDenied" -> EcWriteNotPermitted
      [] e = "AuthorizationRequired" -> EcInsufficientAuthorization
      [] e = "AuthenticationRequired" -> EcInsufficientAuthentication
      [] e = "InvalidDataLength" -> EcInvalidAttributeValueLength

\* Database::read
DatabaseRead(attrs, handle, authorized, authenticated) ==
    IF handle = 0 THEN [ok |-> FALSE, handle |-> handle, code |-> EcInvalidHandle]
    ELSE IF handle \in DOMAIN attrs
    THEN LET g == AttributeGet(attrs[handle], authorized, authenticated)
         IN  IF g.ok THEN [ok |-> TRUE, v |-> g.v]
             ELSE [ok |-> FALSE, handle |-> handle, code |-> ReadErrorCode(g.err)]
    ELSE [ok |-> FALSE, handle |-> handle, code |-> EcAttributeNotFound]

\* Database::write: the outcome and the database afterwards
DatabaseWrite(attrs, handle, val, authorized, authenticated) ==
    IF handle = 0
    THEN [ok |-> FALSE, handle |-> handle, code |-> EcInvalidHandle, attrs |-> attrs]
    ELSE IF handle \in DOMAIN attrs
    THEN LET s == AttributeSet(attrs[handle], val, authorized, authenticated)
         IN  IF s.ok
             THEN [ok |-> TRUE, handle |-> handle, code |-> 0,
                   attrs |-> [attrs EXCEPT ![handle] = s.attr]]
             ELSE [ok |-> FALSE, handle |-> handle, code |-> WriteErrorCode(s.err),
                   attrs |-> [attrs EXCEPT ![handle] = s.attr]]
    ELSE [ok |-> FALSE, handle |-> handle, code |-> EcAttributeNotFound, attrs |-> attrs]

(***************************************************************************)
(* Handlers.  A handler result is [t |-> "ok", resp], [t |-> "err",        *)
(* handle, code] or [t |-> "panic"]; "none" is the result of a command or  *)
(* a confirmation, which have no response.                                 *)
(***************************************************************************)
HOk(resp) == [t |-> "ok", resp |-> resp, handle |-> 0, code |-> 0]

HErr(handle, code) == [t |-> "err", resp |-> [op |-> 0], handle |-> handle, code |-> code]

HPanic == [t |-> "panic", resp |-> [op |-> 0], handle |-> 0, code |-> 0]

HNone == [t |-> "none", resp |-> [op |-> 0], handle |-> 0, code |-> 0]

RequestOps == DeviceRecvOps \ {OpWriteCommand, OpSignedWriteCommand, OpHandleValueConfirmation}

\* the handle each default method of Handler puts in its ErrorResponse
RequestHandle(req) ==
    CASE req.op \in {OpFindInformationRequest, OpFindByTypeValueRequest,
                     OpReadByTypeRequest, OpReadByGroupTypeRequest} -> req.starting_handle
      [] req.op \in {OpReadRequest, OpReadBlobRequest, OpWriteRequest,
                     OpPrepareWriteRequest} -> req.attribute_handle
      [] req.op = OpReadMultipleRequest -> req.set_of_handles[1]
      [] OTHER -> 0

\* trait Handler: the provided methods
DefaultHandler(req) ==
    CASE req.op = OpExchangeMtuRequest ->
            HOk([op |-> OpExchangeMtuResponse, server_rx_mtu |-> req.client_rx_mtu])
      [] req.op = OpReadMultipleRequest ->
            \* item.into_iter().next().unwrap()
            IF req.set_of_handles = <<>> THEN HPanic
            ELSE HErr(req.set_of_handles[1], EcRequestNotSupported)
      [] OTHER -> HErr(RequestHandle(req), EcRequestNotSupported)

\* GattHandler: write_tokens of the connection's registration
WriteTokens == (3 :> "T") @@ (5 :> "U")

\* GattHandler::handle_write_request and the two commands: the event for a
\* tokened handle is sent before the database is written
GattEvents(req, events) ==
    IF req.attribute_handle \in DOMAIN WriteTokens
    THEN Append(events, [token |-> WriteTokens[req.attribute_handle],
                         value |-> req.attribute_value])
    ELSE events

\* impl Handler for GattHandler: the requests (exchange mtu, read, write,
\* read blob)
GattHandler(req, attrs, auth) ==
    CASE req.op = OpExchangeMtuRequest ->
            HOk([op |-> OpExchangeMtuResponse, server_rx_mtu |-> req.client_rx_mtu])
      [] req.op = OpReadRequest ->
            LET r == DatabaseRead(attrs, req.attribute_handle, FALSE, auth)
            IN  IF r.ok THEN HOk([op |-> OpReadResponse, attribute_value |-> r.v])
                ELSE HErr(r.handle, r.code)
      [] req.op = OpWriteRequest ->
            LET w == DatabaseWrite(attrs, req.attribute_handle, req.attribute_value,
                                   FALSE, FALSE)
            IN  IF w.ok THEN HOk([op |-> OpWriteResponse]) ELSE HErr(w.handle, w.code)
      [] req.op = OpReadBlobRequest ->
            \* ReadBlobResponse::new(r[offset..].into()): the slice index
            \* panics when the offset is past the end of the value
            LET r == DatabaseRead(attrs, req.attribute_handle, FALSE, auth)
            IN  IF ~r.ok THEN HErr(r.handle, r.code)
                ELSE IF req.attribute_offset > Len(r.v) THEN HPanic
                ELSE HOk([op |-> OpReadBlobResponse,
                          attribute_value |-> Drop(r.v, req.attribute_offset)])

\* the database after GattHandler handled a write request or a command
GattWrite(req, attrs) ==
    DatabaseWrite(attrs, req.attribute_handle, req.attribute_value, FALSE,
                  req.op = OpSignedWriteCommand)

\* an application's Handler: any of a few answers
LongValue == [i \in 1..(DEFAULT_MTU + 2) |-> 7]

ServerMtus == {DEFAULT_MTU, 30}

CustomHandler(req) ==
    {HErr(3, EcAttributeNotFound), HErr(258, EcInvalidHandle)}
    \cup (CASE req.op = OpExchangeMtuRequest ->
                {HOk([op |-> OpExchangeMtuResponse, server_rx_mtu |-> m]) : m \in ServerMtus}
            [] req.op = OpReadRequest ->
                {HOk([op |-> OpReadResponse, attribute_value |-> LongValue])}
            [] req.op = OpWriteRequest -> {HOk([op |-> OpWriteResponse])}
            [] OTHER -> {})

\* the results a handler of the given kind can return for a request
HandlerResults(kind, req, attrs, auth) ==
    CASE kind = "default" -> {DefaultHandler(req)}
      [] kind = "gatt" -> {GattHandler(req, attrs, auth)}
      [] kind = "custom" -> CustomHandler(req)

(***************************************************************************)
(* Inputs.                                                                 *)
(***************************************************************************)
ClientMtus == {2, 4, DEFAULT_MTU, 30}

MtuDatagrams == {<<OpExchangeMtuRequest>> \o PackU16(m) : m \in ClientMtus}

WriteDatagrams ==
    {<<OpReadRequest, 3, 0>>, <<OpReadRequest, 0, 0>>,
     <<OpWriteRequest, 3, 0, 104, 105>>, <<OpWriteRequest, 1, 0, 104>>,
     <<OpWriteCommand, 3, 0, 104>>, <<OpWriteCommand, 1, 0, 104>>,
     <<OpSignedWriteCommand, 3, 0, 104>>, <<OpSignedWriteCommand, 9, 0, 104>>}

OtherDatagrams ==
    {<<OpFindInformationRequest, 1, 0, 255, 255>>,
     <<OpFindByTypeValueRequest, 1, 0, 255, 255, 0, 40, 0, 24>>,
     <<OpReadByTypeRequest, 1, 0, 255, 255, 3, 40>>,
     <<OpReadBlobRequest, 3, 0, 0, 0>>,
     <<OpReadMultipleRequest>>, <<OpReadMultipleRequest, 3, 0, 1, 0>>,
     <<OpReadByGroupTypeRequest, 1, 0, 255, 255, 0, 40>>,
     <<OpPrepareWriteRequest, 3, 0, 0, 0, 104>>,
     <<OpExecuteWriteRequest, 1>>}

BadDatagrams == {<<255>>, <<OpExchangeMtuResponse, 23, 0>>, <<OpReadRequest>>}

\* what the peer sends to a connection run with each kind of handler
Datagrams(kind) ==
    IF kind = "gatt" THEN MtuDatagrams \cup WriteDatagrams \cup BadDatagrams
    ELSE MtuDatagrams \cup WriteDatagrams \cup OtherDatagrams \cup BadDatagrams

\* what the peer sends to a GATT connection: reads and writes of the two
\* characteristic values, and an exchange that lowers the MTU
GattDatagrams ==
    {<<OpExchangeMtuRequest, 4, 0>>,
     <<OpReadRequest, 3, 0>>, <<OpReadRequest, 5, 0>>,
     <<OpWriteRequest, 3, 0, 104, 105, 106, 107>>, <<OpWriteRequest, 3, 0, 108>>,
     <<OpWriteRequest, 5, 0, 104>>,
     <<OpWriteCommand, 3, 0, 105>>, <<OpWriteCommand, 5, 0, 105>>,
     <<OpSignedWriteCommand, 5, 0, 106>>}

Confirmation == <<OpHandleValueConfirmation>>

\* what the peer sends while the application writes notifications and
\* indications
ConcDatagrams == {<<OpReadRequest, 3, 0>>, <<OpWriteRequest, 1, 0, 104>>, Confirmation}

\* the same, and exchanges of a larger and of a smaller MTU
EgressDatagrams ==
    ConcDatagrams \cup {<<OpExchangeMtuRequest, 30, 0>>, <<OpExchangeMtuRequest, 4, 0>>}

Writers == {"n1", "i1", "i2"}

IndWriters == {"i1", "i2"}

\* the value the application writes: "ok"
AppValues == {<<111, 107>>}

\* the database of a registration with one service and two tokened
\* characteristics: one READ | WRITE, one READ | WRITE |
\* AUTHENTICATED_SIGNED_WRITES
InitDb ==
    (1 :> [variant |-> "Service", permission |-> {"READABLE"}, value |-> <<0, 24>>])
    @@ (2 :> [variant |-> "Characteristic", permission |-> {"READABLE"},
              value |-> <<10, 3, 0, 0, 42>>])
    @@ (3 :> [variant |-> "CharacteristicValue",
              permission |-> {"READABLE", "WRITEABLE"}, value |-> <<>>])
    @@ (4 :> [variant |-> "Characteristic", permission |-> {"READABLE"},
              value |-> <<74, 5, 0, 1, 42>>])
    @@ (5 :> [variant |-> "CharacteristicValue",
              permission |-> {"READABLE", "WRITEABLE", "AUTHENTICATION_REQUIRED"},
              value |-> <<>>])

(***************************************************************************)
(* State.                                                                  *)
(***************************************************************************)
VARIABLES
    handlerKind,        \* the Handler passed to run: "default", "gatt", "custom"
    db,                 \* GattHandler.db: Database.attrs
    events,             \* the Event::Write events sent to the subscriber
    authenticated,      \* GattHandler.authenticated
    ingress,            \* datagrams the socket holds for poll_read
    sent,               \* number of datagrams the peer has sent
    eof,                \* the peer has closed: poll_read reads zero bytes
    confSent,           \* number of confirmations the peer has sent
    wire,               \* the datagrams written to the socket
    sockFull,           \* the socket's poll_write returns Pending
    fills,              \* number of times the socket became full
    sockWrWaiter,       \* the task whose waker waits for the socket to be writable
    txmtu,              \* PacketStream.txbuf.len()
    rxmtu,              \* PacketStream.rxbuf.len()
    txbuf,              \* PacketStream.txbuf: the bytes packed into it
    txlen,              \* PacketStream.txlen
    txwaker,            \* PacketStream.txwaker
    await_confirmation, \* Inner.await_confirmation: the writer holding the receiver
    lockHolder,         \* who holds the guard of Mutex<Inner> between steps
    runPc,              \* where ConnectionInner::run is: "next", "send", "flush", "done"
    runResult,          \* "running", or how run ended: "ok", "err", "panic", "dropped"
    runItem,            \* the response respond is sending
    wState,             \* NotificationState / IndicationState of each handle
    wBuf,               \* the buf of the handle's current poll_write call
    wCall,              \* the handle's current write: "idle", "pending", "ok", "err", "panic"
    woken,              \* the writer's task has been woken and will be polled
    chan,               \* the oneshot channel of each indication: "none", "open", "sent", "canceled"
    writes,             \* number of writes the application issued per handle
    log,                \* the PDUs handle() dispatched, with the handler's results
    indSeq,             \* the writers of the indications on the wire, in wire order
    endWaiters,         \* the indication writes that waited when run ended
    call,               \* a library function applied outside a connection: its input and result
    reg                 \* a gatt::Registration under construction

gattVars == <<handlerKind, db, events, authenticated>>

peerVars == <<ingress, sent, eof, confSent>>

sockVars == <<wire, sockFull, fills, sockWrWaiter>>

streamVars == <<txmtu, rxmtu, txbuf, txlen, txwaker>>

runVars == <<lockHolder, runPc, runResult, runItem, log, endWaiters>>

writerVars == <<wState, wBuf, wCall, woken, chan, writes, await_confirmation, indSeq>>

libVars == <<call, reg>>

vars == <<gattVars, peerVars, sockVars, streamVars, runVars, writerVars, libVars>>

\* no library function has been applied
NoCall == [fn |-> "none"]

\* Registration::new
RegistrationNew ==
    [next_handle |-> 1, attrs |-> <<>>, write_handles |-> <<>>,
     notify_or_indicate_handles |-> <<>>]

\* a connection of its own: nothing is registered or applied beside it
InitLib ==
    /\ call = NoCall
    /\ reg = RegistrationNew

\* Inner::new, PacketStream::new, ConnectionInner::notification / indication
InitCommon ==
    /\ db = InitDb
    /\ events = <<>>
    /\ authenticated = FALSE
    /\ ingress = <<>>
    /\ sent = 0
    /\ eof = FALSE
    /\ confSent = 0
    /\ wire = <<>>
    /\ sockFull = FALSE
    /\ fills = 0
    /\ sockWrWaiter = "none"
    /\ txmtu = DEFAULT_MTU
    /\ rxmtu = DEFAULT_MTU
    /\ txbuf = <<>>
    /\ txlen = 0
    /\ txwaker = {}
    /\ await_confirmation = "none"
    /\ lockHolder = "none"
    /\ runPc = "next"
    /\ runResult = "running"
    /\ runItem = [op |-> 0]
    /\ wState = [w \in Writers |-> "Write"]
    /\ wBuf = [w \in Writers |-> <<>>]
    /\ wCall = [w \in Writers |-> "idle"]
    /\ woken = [w \in Writers |-> FALSE]
    /\ chan = [w \in Writers |-> "none"]
    /\ writes = [w \in Writers |-> 0]
    /\ log = <<>>
    /\ indSeq = <<>>
    /\ endWaiters = {}

(***************************************************************************)
(* The peer and the socket.                                                *)
(***************************************************************************)
\* the peer sends one datagram.  It confirms only indications it received.
PeerSend(S) ==
    /\ sent < MaxIngress
    /\ ~eof
    /\ \E d \in S :
        /\ d = Confirmation => confSent < Len(indSeq)
        /\ ingress' = Append(ingress, d)
        /\ confSent' = IF d = Confirmation THEN confSent + 1 ELSE confSent
    /\ sent' = sent + 1
    /\ UNCHANGED <<libVars, eof, gattVars, sockVars, streamVars, runVars, writerVars>>

\* the peer disconnects
PeerClose ==
    /\ ~eof
    /\ eof' = TRUE
    /\ UNCHANGED <<libVars, ingress, sent, confSent, gattVars, sockVars, streamVars, runVars,
                   writerVars>>

\* the socket's send buffer, written to and not yet drained by the peer, is
\* full: poll_write returns Pending
SockFill ==
    /\ ~sockFull
    /\ wire # <<>>
    /\ fills < MaxFills
    /\ sockFull' = TRUE
    /\ fills' = fills + 1
    /\ UNCHANGED <<libVars, wire, sockWrWaiter, gattVars, peerVars, streamVars, runVars, writerVars>>

\* the socket becomes writable again and wakes the registered task
SockDrain ==
    /\ sockFull
    /\ sockFull' = FALSE
    /\ sockWrWaiter' = "none"
    /\ woken' = IF sockWrWaiter \in Writers
                THEN [woken EXCEPT ![sockWrWaiter] = TRUE]
                ELSE woken
    /\ UNCHANGED <<libVars, wire, fills, gattVars, peerVars, streamVars, runVars, wState, wBuf,
                   wCall, chan, writes, await_confirmation, indSeq>>

(***************************************************************************)
(* ConnectionInner::run.                                                   *)
(***************************************************************************)
\* the indication writes that wait for a confirmation, each with its number
WaitersNow ==
    {<<w, writes[w]>> : w \in {x \in IndWriters : /\ wCall[x] = "pending"
                                                 /\ wState[x] = "AwaitConfirmation"
                                                 /\ chan[x] = "open"}}

\* a log entry: the datagram, the PDU's opcode, the handler's result, the
\* MTUs of an exchange, the outcome of GattHandler's database write and the
\* authenticated flag the handler could load
Entry(d, req, res, wrote) ==
    [dgram |-> d, op |-> req.op, t |-> res.t, handle |-> res.handle, code |-> res.code,
     client |-> IF req.op = OpExchangeMtuRequest THEN req.client_rx_mtu ELSE 0,
     server |-> IF req.op = OpExchangeMtuRequest /\ res.t = "ok"
                THEN res.resp.server_rx_mtu ELSE 0,
     wrote |-> wrote, auth |-> authenticated]

\* handle() with the command arms passing the handler's result to respond
RespondsToCommands(req) ==
    req.op \in RequestOps \cup {OpWriteCommand, OpSignedWriteCommand}

\* the arms of handle() that call respond: the requests
Responds(req) == req.op \in RequestOps

\* respond() with SinkExt::feed in place of send: no flush is awaited
SendFeedOnly == [runPc |-> "next", lockHolder |-> "none"]

\* SinkExt::send in respond: feed, then flush; the guard is held meanwhile
SendAwait == [runPc |-> "flush", lockHolder |-> "run"]

\* the handler method handle() calls for the PDU: its result, GattHandler's
\* database and events afterwards
HandlerCall(req) ==
    IF handlerKind = "gatt"
       /\ req.op \in {OpWriteRequest, OpWriteCommand, OpSignedWriteCommand}
    THEN LET w == GattWrite(req, db)
         IN  {[res |-> IF req.op = OpWriteRequest
                       THEN GattHandler(req, db, authenticated) ELSE HNone,
               db |-> w.attrs, events |-> GattEvents(req, events),
               wrote |-> IF w.ok THEN "ok" ELSE "fail"]}
    ELSE IF req.op \in {OpWriteCommand, OpSignedWriteCommand}
    THEN {[res |-> HNone, db |-> db, events |-> events, wrote |-> "na"]}
    ELSE {[res |-> r, db |-> db, events |-> events, wrote |-> "na"] :
            r \in HandlerResults(handlerKind, req, db, authenticated)}

\* the state of the run future when nothing but the ingress queue changes
RunStay ==
    [runPc |-> "next", runResult |-> "running", lockHolder |-> "none",
     txmtu |-> txmtu, rxmtu |-> rxmtu, txbuf |-> txbuf, runItem |-> runItem,
     db |-> db, events |-> events, chan |-> chan, woken |-> woken,
     await |-> await_confirmation, entry |-> <<>>]

\* run returns or unwinds: the guard is dropped
RunEnd(o, result) == [o EXCEPT !.runPc = "done", !.runResult = result, !.lockHolder = "none"]

\* handle(): one PDU
Handle(d, req) ==
    IF req.op = OpHandleValueConfirmation
    THEN \* inner.await_confirmation.take(), channel.send(())
         {[RunStay EXCEPT
             !.chan = IF await_confirmation = "none" THEN chan
                      ELSE [chan EXCEPT ![await_confirmation] = "sent"],
             !.woken = IF await_confirmation = "none" THEN woken
                       ELSE [woken EXCEPT ![await_confirmation] = TRUE],
             !.await = "none",
             !.entry = <<Entry(d, req, HNone, "na")>>]}
    ELSE UNION {
        LET o == [RunStay EXCEPT !.db = c.db, !.events = c.events,
                                 !.entry = <<Entry(d, req, c.res, c.wrote)>>]
        IN  IF c.res.t = "panic" THEN {RunEnd(o, "panic")}
            ELSE IF ~Responds(req) THEN {o}
            ELSE
            LET exchanged == req.op = OpExchangeMtuRequest /\ c.res.t = "ok"
                \* set_txmtu(client_rx_mtu), set_rxmtu(server_rx_mtu)
                m == [o EXCEPT
                        !.txmtu = IF exchanged THEN req.client_rx_mtu ELSE txmtu,
                        !.txbuf = IF exchanged THEN Take(txbuf, req.client_rx_mtu)
                                  ELSE txbuf,
                        !.rxmtu = IF exchanged THEN c.res.resp.server_rx_mtu ELSE rxmtu,
                        !.runPc = "send", !.lockHolder = "run"]
            IN  \* respond(): truncate to stream.txmtu(), or the Error Response
                IF c.res.t = "ok"
                THEN {IF tr.panic THEN RunEnd(m, "panic")
                      ELSE [m EXCEPT !.runItem = tr.pdu] :
                          tr \in Truncate(c.res.resp, m.txmtu)}
                ELSE {[m EXCEPT !.runItem =
                          NewErrorResponse(req.op, c.res.handle, c.res.code)]}
        : c \in HandlerCall(req)}

\* run with the end of the stream taken for an error
EndOfStreamAsError == RunEnd(RunStay, "err")

\* run on Ready(None), a zero-length read: `return Ok(())`
EndOfStream == RunEnd(RunStay, "ok")

\* run skipping a datagram it cannot decode
DecodeIgnored == RunStay

\* run on Ready(Some(Err(_))), an undecodable datagram: `request?`
DecodeFailed == RunEnd(RunStay, "err")

\* TryLockNext and PacketStream::poll_next, then handle() up to its first
\* await: a datagram is read into rxbuf, unpacked and dispatched
RunNextOutcomes ==
    LET d == IF ingress = <<>> THEN <<>> ELSE Head(ingress)
        filled == Take(d, rxmtu)
    IN  IF filled = <<>> THEN {EndOfStream}
        ELSE LET u == DeviceRecvUnpack(filled)
             IN  IF ~u.ok THEN {DecodeFailed}
                 ELSE Handle(d, u.pdu)

RunNext ==
    /\ runPc = "next"
    /\ lockHolder = "none"
    /\ ingress # <<>> \/ eof
    /\ ingress' = IF ingress = <<>> THEN ingress ELSE Tail(ingress)
    /\ \E o \in RunNextOutcomes :
        /\ runPc' = o.runPc
        /\ runResult' = o.runResult
        /\ lockHolder' = o.lockHolder
        /\ txmtu' = o.txmtu
        /\ rxmtu' = o.rxmtu
        /\ txbuf' = o.txbuf
        /\ runItem' = o.runItem
        /\ db' = o.db
        /\ events' = o.events
        /\ chan' = o.chan
        /\ woken' = o.woken
        /\ await_confirmation' = o.await
        /\ log' = log \o o.entry
        /\ endWaiters' = IF o.runResult # "running" THEN WaitersNow ELSE endWaiters
    /\ UNCHANGED <<libVars, handlerKind, authenticated, sent, eof, confSent, sockVars, txlen,
                   txwaker, wState, wBuf, wCall, writes, indSeq>>

\* respond(): Sink::poll_ready and start_send of the response.  With the
\* egress buffer occupied the waker goes to txwaker, which nothing wakes.
RunSend ==
    /\ runPc = "send"
    /\ "run" \notin txwaker
    /\ IF txlen # 0
       THEN /\ txwaker' = txwaker \cup {"run"}
            /\ UNCHANGED <<txbuf, txlen, lockHolder, runPc, runResult, endWaiters>>
       ELSE LET bytes == PackWithCode(runItem)
            IN  IF Len(bytes) > txmtu
                THEN \* pack_with_code fails on the full buffer: `?` ends run
                     /\ runPc' = "done"
                     /\ runResult' = "err"
                     /\ lockHolder' = "none"
                     /\ endWaiters' = WaitersNow
                     /\ UNCHANGED <<txbuf, txlen, txwaker>>
                ELSE /\ txbuf' = bytes
                     /\ txlen' = Len(bytes)
                     /\ runPc' = SendAwait.runPc
                     /\ lockHolder' = SendAwait.lockHolder
                     /\ UNCHANGED <<runResult, txwaker, endWaiters>>
    /\ UNCHANGED <<libVars, txmtu, rxmtu, runItem, log, gattVars, peerVars, sockVars, writerVars>>

\* respond(): PacketStream::poll_flush of the response on a writable socket;
\* then handle() returns and the guard is dropped
RunFlush ==
    /\ runPc = "flush"
    /\ ~sockFull
    /\ wire' = Append(wire, Take(txbuf, txlen))
    /\ txlen' = 0
    /\ runPc' = "next"
    /\ lockHolder' = "none"
    /\ UNCHANGED <<libVars, sockFull, fills, sockWrWaiter, txmtu, rxmtu, txbuf, txwaker,
                   runResult, runItem, log, endWaiters, gattVars, peerVars, writerVars>>

\* the application drops the run future
DropRun ==
    /\ runResult = "running"
    /\ runPc' = "done"
    /\ runResult' = "dropped"
    /\ lockHolder' = "none"
    /\ endWaiters' = WaitersNow
    /\ UNCHANGED <<libVars, runItem, log, gattVars, peerVars, sockVars, streamVars, writerVars>>

(***************************************************************************)
(* Notification and Indication handles: AsyncWrite::poll_write.            *)
(***************************************************************************)
\* the attribute handle the writers' handles were made for
WriterHandle == 1

\* pkt::HandleValueNotificationBorrow::new / HandleValueIndicationBorrow::new
WriterItem(w) ==
    [op |-> IF w \in IndWriters THEN OpHandleValueIndication
            ELSE OpHandleValueNotification,
     attribute_handle |-> WriterHandle, attribute_value |-> wBuf[w]]

\* the writes the application has issued on all its handles
TotalWrites == writes["n1"] + writes["i1"] + writes["i2"]

\* the application calls write(value) on a handle and polls the future
AppWrite(w) ==
    /\ wCall[w] \in {"idle", "ok", "err"}
    /\ TotalWrites < MaxWrites
    /\ \E v \in AppValues : wBuf' = [wBuf EXCEPT ![w] = v]
    /\ wCall' = [wCall EXCEPT ![w] = "pending"]
    /\ woken' = [woken EXCEPT ![w] = TRUE]
    /\ writes' = [writes EXCEPT ![w] = @ + 1]
    /\ UNCHANGED <<libVars, wState, chan, await_confirmation, indSeq, runVars, gattVars,
                   peerVars, sockVars, streamVars>>

\* what one poll of a writer starts from: its wakeup is consumed
PollStart(w) ==
    [wState |-> wState[w], wCall |-> "pending", txbuf |-> txbuf, txlen |-> txlen,
     txwaker |-> txwaker, wire |-> wire, sockWrWaiter |-> sockWrWaiter,
     await |-> await_confirmation, chan |-> chan, indSeq |-> indSeq,
     woken |-> [woken EXCEPT ![w] = FALSE]]

\* IndicationState::AwaitConfirmation: rx.poll_unpin
AwaitStage(w, o) ==
    CASE o.chan[w] = "sent" ->
            [o EXCEPT !.wState = "Write", !.wCall = "ok", !.chan[w] = "none"]
      [] o.chan[w] = "canceled" -> [o EXCEPT !.wCall = "err"]
      [] OTHER -> o

\* a flushed indication installs its Sender in Inner: the Sender that was
\* there is dropped, which cancels its Receiver and wakes the task on it
InstallSender(w, o) ==
    LET p == o.await
    IN  [o EXCEPT
           !.chan = IF p = "none" THEN [@ EXCEPT ![w] = "open"]
                    ELSE [[@ EXCEPT ![p] = "canceled"] EXCEPT ![w] = "open"],
           !.woken = IF p = "none" \/ p = w THEN @ ELSE [@ EXCEPT ![p] = TRUE],
           !.await = w]

\* NeedFlush: PacketStream::poll_flush on the socket
FlushStage(w, o) ==
    IF sockFull THEN [o EXCEPT !.sockWrWaiter = w]
    ELSE LET f == [o EXCEPT !.wire = Append(@, Take(o.txbuf, o.txlen)), !.txlen = 0]
         IN  IF w \in IndWriters
             THEN AwaitStage(w, [InstallSender(w, f) EXCEPT
                                    !.wState = "AwaitConfirmation",
                                    !.indSeq = Append(@, w)])
             ELSE [f EXCEPT !.wState = "Write", !.wCall = "ok"]

\* a Write stage that packs the PDU without asking poll_ready
WriteStageUnready(w, o) ==
    LET bytes == PackWithCode(WriterItem(w))
    IN  IF Len(bytes) > txmtu THEN [o EXCEPT !.wCall = "err"]
        ELSE FlushStage(w, [o EXCEPT !.txbuf = bytes, !.txlen = Len(bytes),
                                     !.wState = "NeedFlush"])

\* Write: Sink::poll_ready and start_send
WriteStage(w, o) ==
    IF o.txlen # 0 THEN [o EXCEPT !.txwaker = @ \cup {w}]
    ELSE LET bytes == PackWithCode(WriterItem(w))
         IN  IF Len(bytes) > txmtu THEN [o EXCEPT !.wCall = "err"]
             ELSE FlushStage(w, [o EXCEPT !.txbuf = bytes, !.txlen = Len(bytes),
                                          !.wState = "NeedFlush"])

\* one poll of a pending write.  inner.lock() is polled first; when run holds
\* the guard the MutexLockFuture is dropped with the poll and leaves no waker.
PollWrite(w) ==
    IF lockHolder # "none" THEN PollStart(w)
    ELSE CASE wState[w] = "Write" -> WriteStage(w, PollStart(w))
           [] wState[w] = "NeedFlush" -> FlushStage(w, PollStart(w))
           [] wState[w] = "AwaitConfirmation" -> AwaitStage(w, PollStart(w))

WriterPoll(w) ==
    /\ wCall[w] = "pending"
    /\ woken[w]
    /\ LET o == PollWrite(w)
       IN  /\ wState' = [wState EXCEPT ![w] = o.wState]
           /\ wCall' = [wCall EXCEPT ![w] = o.wCall]
           /\ txbuf' = o.txbuf
           /\ txlen' = o.txlen
           /\ txwaker' = o.txwaker
           /\ wire' = o.wire
           /\ sockWrWaiter' = o.sockWrWaiter
           /\ await_confirmation' = o.await
           /\ chan' = o.chan
           /\ indSeq' = o.indSeq
           /\ woken' = o.woken
    /\ UNCHANGED <<libVars, wBuf, writes, sockFull, fills, txmtu, rxmtu, runVars, gattVars,
                   peerVars>>

(***************************************************************************)
(* Specifications.                                                         *)
(***************************************************************************)
\* one connection served by the default Handler, with the application's
\* notification and indication writers running beside run() while the
\* connection lasts
Init ==
    /\ handlerKind = "default"
    /\ InitCommon
    /\ InitLib

Next ==
    \/ PeerSend(ConcDatagrams)
    \/ SockFill
    \/ SockDrain
    \/ RunNext
    \/ RunSend
    \/ RunFlush
    \/ \E w \in Writers : AppWrite(w)
    \/ \E w \in Writers : WriterPoll(w)

Spec == Init /\ [][Next]_vars

\* the same connection with a peer that also exchanges the MTU while the
\* application writes
NextEgress ==
    \/ PeerSend(EgressDatagrams)
    \/ SockFill
    \/ SockDrain
    \/ RunNext
    \/ RunSend
    \/ RunFlush
    \/ \E w \in Writers : AppWrite(w)
    \/ \E w \in Writers : WriterPoll(w)

SpecEgress == Init /\ [][NextEgress]_vars

\* the same connection with one indication writer, the peer closing and
\* the application dropping run() at any time, the tasks polled when woken
\* and the socket draining
LiveWriter == "i1"

NextLive ==
    \/ PeerSend(ConcDatagrams)
    \/ PeerClose
    \/ SockFill
    \/ SockDrain
    \/ RunNext
    \/ RunSend
    \/ RunFlush
    \/ DropRun
    \/ AppWrite(LiveWriter)
    \/ WriterPoll(LiveWriter)

FairSpec ==
    /\ Init
    /\ [][NextLive]_vars
    /\ WF_vars(RunNext) /\ WF_vars(RunSend) /\ WF_vars(RunFlush) /\ WF_vars(SockDrain)
    /\ WF_vars(WriterPoll(LiveWriter))

\* one connection and every kind of PDU, under each Handler, on a socket
\* that stays writable
InitDispatch ==
    /\ handlerKind \in {"default", "gatt", "custom"}
    /\ InitCommon
    /\ InitLib

NextDispatch ==
    \/ PeerSend(Datagrams(handlerKind))
    \/ PeerClose
    \/ RunNext
    \/ RunSend
    \/ RunFlush

SpecDispatch == InitDispatch /\ [][NextDispatch]_vars

(***************************************************************************)
(* Response::truncate applied to list responses.  The MTUs are those a     *)
(* connection answers requests with: DEFAULT_MTU, or one in which the      *)
(* Exchange MTU Response could be packed, up to DEFAULT_MTU.               *)
(***************************************************************************)
MaxEntries == 3

MinLiveMtu ==
    Len(PackWithCode([op |-> OpExchangeMtuResponse, server_rx_mtu |-> DEFAULT_MTU]))

ListMtus == MinLiveMtu..DEFAULT_MTU

\* a 16 bit and a 128 bit Uuid
Uuid16Bytes == <<0, 40>>

Uuid128Bytes == <<0, 40, 0, 0, 0, 0, 0, 0, 0, 0, 0, 0, 0, 0, 0, 0>>

\* attribute values of two lengths
ListValues == {<<7>>, <<7, 8, 9, 10>>}

\* the entries a response of the kind can carry at position i
ListItems(op, i) ==
    CASE op = OpFindInformationResponse ->
            {[handle |-> i, uuid |-> u] : u \in {Uuid16Bytes, Uuid128Bytes}}
      [] op = OpFindByTypeValueResponse -> {[handle |-> i, end |-> i]}
      [] op = OpReadByTypeResponse -> {[handle |-> i, value |-> v] : v \in ListValues}
      [] op = OpReadByGroupTypeResponse ->
            {[handle |-> i, end |-> i, value |-> v] : v \in ListValues}

\* the lists of n entries of the kind
RECURSIVE ListsOf(_, _)
ListsOf(op, n) ==
    IF n = 0 THEN {<<>>}
    ELSE {Append(l, e) : l \in ListsOf(op, n - 1), e \in ListItems(op, n)}

ListResponses ==
    UNION {{[op |-> op, values |-> l] : l \in ListsOf(op, n)} :
                op \in ListResponseOps, n \in 0..MaxEntries}

\* the sizes of the encoded response: opcode, list header and entries
RECURSIVE SumSizes(_, _)
SumSizes(op, items) ==
    IF items = <<>> THEN 0 ELSE ItemSize(op, Head(items)) + SumSizes(op, Tail(items))

EncodedSize(p) == ListHeader(p.op) + SumSizes(p.op, p.values)

IsPrefix(a, b) == Len(a) <= Len(b) /\ a = SubSeq(b, 1, Len(a))

InitTruncate ==
    /\ handlerKind = "default"
    /\ InitCommon
    /\ reg = RegistrationNew
    /\ call \in {[fn |-> "truncate", pdu |-> p, mtu |-> m, done |-> FALSE,
                  panic |-> FALSE, out |-> p] : p \in ListResponses, m \in ListMtus}

\* r.truncate(mtu)
ApplyTruncate ==
    /\ call.fn = "truncate"
    /\ ~call.done
    /\ \E o \in Truncate(call.pdu, call.mtu) :
            call' = [call EXCEPT !.done = TRUE, !.panic = o.panic, !.out = o.pdu]
    /\ UNCHANGED <<reg, gattVars, peerVars, sockVars, streamVars, runVars, writerVars>>

NextTruncate == ApplyTruncate

SpecTruncate == InitTruncate /\ [][NextTruncate]_vars

(***************************************************************************)
(* gatt::Registration.  CharacteristicProperties, the AttProperties and    *)
(* AttExProperties of the attributes are sets of flag names; the           *)
(* conversion between them goes through the bits, as the code does.  An    *)
(* attribute is [variant, handle, ...] with the fields of its variant; a   *)
(* 16 bit Uuid is its number.  A HashMap is a function; an absent token    *)
(* is "none".                                                              *)
(***************************************************************************)
MaxCalls == 3

CharacteristicPropertyFlags ==
    {"BROADCAST", "READ", "WRITE_WITHOUT_RESPONSE", "WRITE", "NOTIFY", "INDICATE",
     "AUTHENTICATED_SIGNED_WRITES", "RELIABLE_WRITE", "WRITABLE_AUXILIARIES",
     "AUTHORIZATION_REQUIRED"}

\* the bit of a flag of registration::CharacteristicProperties
CpBit(f) ==
    CASE f = "BROADCAST" -> 1
      [] f = "READ" -> 2
      [] f = "WRITE_WITHOUT_RESPONSE" -> 4
      [] f = "WRITE" -> 8
      [] f = "NOTIFY" -> 16
      [] f = "INDICATE" -> 32
      [] f = "AUTHENTICATED_SIGNED_WRITES" -> 64
      [] f = "RELIABLE_WRITE" -> 256
      [] f = "WRITABLE_AUXILIARIES" -> 512
      [] f = "AUTHORIZATION_REQUIRED" -> 65536

\* the bit of a flag of attribute::CharacteristicProperties
ApBit(f) ==
    CASE f = "BROADCAST" -> 1
      [] f = "READ" -> 2
      [] f = "WRITE_WITHOUT_RESPONSE" -> 4
      [] f = "WRITE" -> 8
      [] f = "NOTIFY" -> 16
      [] f = "INDICATE" -> 32
      [] f = "AUTHENTICATED_SIGNED_WRITES" -> 64
      [] f = "EXTENDED_PROPERTIES" -> 128

AttPropertyFlags ==
    {"BROADCAST", "READ", "WRITE_WITHOUT_RESPONSE", "WRITE", "NOTIFY", "INDICATE",
     "AUTHENTICATED_SIGNED_WRITES", "EXTENDED_PROPERTIES"}

\* the bit of a flag of attribute::CharacteristicExtendedProperties
ExBit(f) ==
    CASE f = "RELIABLE_WRITE" -> 1
      [] f = "WRITABLE_AUXILIARIES" -> 2

AttExPropertyFlags == {"RELIABLE_WRITE", "WRITABLE_AUXILIARIES"}

\* CharacteristicProperties::bits
RECURSIVE CpBits(_)
CpBits(P) ==
    IF P = {} THEN 0
    ELSE LET f == CHOOSE x \in P : TRUE IN CpBit(f) + CpBits(P \ {f})

\* `(v.bits() >> 8) as u8`, read with a shift of 9
ExBitsShifted(P) == (CpBits(P) \div 512) % 256

\* `(v.bits() >> 8) as u8`
ExBits(P) == (CpBits(P) \div 256) % 256

\* From<CharacteristicProperties> for (AttProperties, AttExProperties)
FromProperties(P) ==
    LET low == CpBits(P) % 256
        prop == {f \in AttPropertyFlags : (low \div ApBit(f)) % 2 = 1}
        exprop == {f \in AttExPropertyFlags : (ExBits(P) \div ExBit(f)) % 2 = 1}
    IN  [prop |-> IF exprop # {} THEN prop \cup {"EXTENDED_PROPERTIES"} ELSE prop,
         exprop |-> exprop]

\* CharacteristicProperties::perm
Perm(P) ==
    (IF "READ" \in P THEN {"READABLE"} ELSE {})
    \cup (IF "WRITE" \in P \/ "WRITE_WITHOUT_RESPONSE" \in P THEN {"WRITEABLE"} ELSE {})
    \cup (IF "AUTHENTICATED_SIGNED_WRITES" \in P
          THEN {"AUTHENTICATION_REQUIRED"} ELSE {})
    \cup (IF "AUTHORIZATION_REQUIRED" \in P THEN {"AUTHORIZATION_REQUIRED"} ELSE {})

\* a next_handle that hands out the same handle again
NextHandleStuck(r) == [result |-> r.next_handle, reg |-> r]

\* Registration::next_handle.  next_handle is a u16: past 0xFFFF a build
\* without overflow checks wraps to 0x0000 (one with them panics)
NextHandle(r) ==
    [result |-> r.next_handle, reg |-> [r EXCEPT !.next_handle = (@ + 1) % 65536]]

\* self.attrs.push
Push(r, a) == [r EXCEPT !.attrs = Append(@, a)]

\* HashMap::insert
Insert(m, k, v) == (k :> v) @@ m

\* Registration::add_primary_service
AddPrimaryServiceTo(r, uuid) ==
    LET n == NextHandle(r)
    IN  Push(n.reg, [variant |-> "Service", handle |-> n.result, primary |-> TRUE,
                     uuid |-> uuid])

\* the descriptors add_characteristic_internal creates, Client
\* Characteristic Configuration first
AutoDescriptorsCccFirst(exprop, notify, indicate, broadcast) ==
    (IF notify \/ indicate THEN <<"ClientCharacteristicConfiguration">> ELSE <<>>)
    \o (IF exprop # {} THEN <<"CharacteristicExtendedProperties">> ELSE <<>>)
    \o (IF broadcast THEN <<"ServerCharacteristicConfiguration">> ELSE <<>>)

\* the descriptors add_characteristic_internal creates, in its order: the
\* three `if` blocks after the value attribute
AutoDescriptors(exprop, notify, indicate, broadcast) ==
    (IF exprop # {} THEN <<"CharacteristicExtendedProperties">> ELSE <<>>)
    \o (IF notify \/ indicate THEN <<"ClientCharacteristicConfiguration">> ELSE <<>>)
    \o (IF broadcast THEN <<"ServerCharacteristicConfiguration">> ELSE <<>>)

\* the attribute of one of these descriptors
NewAutoDescriptor(variant, handle, exprop) ==
    IF variant = "CharacteristicExtendedProperties"
    THEN [variant |-> variant, handle |-> handle, extended_properties |-> exprop]
    ELSE [variant |-> variant, handle |-> handle, configuration |-> {},
          permission |-> {"READABLE", "WRITEABLE"}]

RECURSIVE PushDescriptors(_, _, _)
PushDescriptors(r, variants, exprop) ==
    IF variants = <<>> THEN r
    ELSE LET n == NextHandle(r)
         IN  PushDescriptors(Push(n.reg, NewAutoDescriptor(Head(variants), n.result, exprop)),
                             Tail(variants), exprop)

\* a token is recorded for every characteristic
WritableAlways(perm) == TRUE

\* let writable = perm.contains(Permission::WRITEABLE)
Writable(perm) == "WRITEABLE" \in perm

\* Registration::add_characteristic_internal
AddCharacteristicInternal(r, token, uuid, val, properties) ==
    LET d == NextHandle(r)
        v == NextHandle(d.reg)
        decl_handle == d.result
        val_handle == v.result
        perm == Perm(properties)
        notify == "NOTIFY" \in properties
        indicate == "INDICATE" \in properties
        broadcast == "BROADCAST" \in properties
        conv == FromProperties(properties)
        r1 == Push(v.reg, [variant |-> "Characteristic", handle |-> decl_handle,
                           properties |-> conv.prop, value_handle |-> val_handle,
                           uuid |-> uuid])
        r2 == Push(r1, [variant |-> "CharacteristicValue", handle |-> val_handle,
                        attr_type |-> uuid, value |-> val, permission |-> perm])
        r3 == PushDescriptors(r2, AutoDescriptors(conv.exprop, notify, indicate, broadcast),
                              conv.exprop)
        r4 == IF (notify \/ indicate) /\ token # "none"
              THEN [r3 EXCEPT !.notify_or_indicate_handles = Insert(@, token, val_handle)]
              ELSE r3
    IN  IF Writable(perm) /\ token # "none"
        THEN [r4 EXCEPT !.write_handles = Insert(@, val_handle, token)]
        ELSE r4

\* Registration::add_descriptor
AddDescriptorTo(r, uuid, val, writable) ==
    LET n == NextHandle(r)
    IN  Push(n.reg, [variant |-> "Descriptor", handle |-> n.result, uuid |-> uuid,
                     value |-> val,
                     permission |-> IF writable THEN {"READABLE", "WRITEABLE"}
                                    ELSE {"READABLE"}])

\* FromIterator<Attribute> for Database: a BTreeMap keyed by a.handle()
RECURSIVE DatabaseFromIter(_)
DatabaseFromIter(attrs) ==
    IF attrs = <<>> THEN <<>>
    ELSE LET a == attrs[Len(attrs)]
         IN  Insert(DatabaseFromIter(SubSeq(attrs, 1, Len(attrs) - 1)), a.handle, a)

\* Registration::build
Build(r) ==
    [db |-> DatabaseFromIter(r.attrs), write_tokens |-> r.write_handles,
     notify_handles |-> r.notify_or_indicate_handles]

\* Attribute::attr_type: 0x2800, 0x2801, 0x2803, 0x2900, 0x2902, 0x2903,
\* or the Uuid the attribute carries
AttrType(a) ==
    CASE a.variant = "Service" -> IF a.primary THEN 10240 ELSE 10241
      [] a.variant = "Characteristic" -> 10243
      [] a.variant = "CharacteristicValue" -> a.attr_type
      [] a.variant = "CharacteristicExtendedProperties" -> 10496
      [] a.variant = "ClientCharacteristicConfiguration" -> 10498
      [] a.variant = "ServerCharacteristicConfiguration" -> 10499
      [] a.variant = "Descriptor" -> a.uuid

\* what the application registers: each flag alone, none and all for a
\* characteristic without a token; with a token, characteristics that are
\* writable, notifying, both and neither
Tokens == {"T", "U"}

TokenPropertySets ==
    {{"WRITE"}, {"NOTIFY"}, {"WRITE_WITHOUT_RESPONSE", "INDICATE"}, {"READ"}}

CharacteristicCalls ==
    {[token |-> "none", uuid |-> 10752, properties |-> P] :
        P \in {{f} : f \in CharacteristicPropertyFlags}
                \cup {{}, CharacteristicPropertyFlags}}
    \cup {[token |-> "T", uuid |-> 10752, properties |-> P] : P \in TokenPropertySets}
    \cup {[token |-> "U", uuid |-> 10753, properties |-> P] : P \in TokenPropertySets}

\* a call is logged with the position of the first attribute it creates
Logged(kind, c) == [kind |-> kind, pos |-> Len(reg.attrs) + 1, c |-> c]

RegistrationOpen ==
    call.fn = "registration" /\ ~call.built /\ Len(call.log) < MaxCalls

InitRegistration ==
    /\ handlerKind = "default"
    /\ InitCommon
    /\ reg = RegistrationNew
    /\ call = [fn |-> "registration", log |-> <<>>, built |-> FALSE,
               out |-> Build(RegistrationNew)]

connVars == <<gattVars, peerVars, sockVars, streamVars, runVars, writerVars>>

\* registration.add_primary_service(uuid)
AddPrimaryService ==
    /\ RegistrationOpen
    /\ reg' = AddPrimaryServiceTo(reg, 6144)
    /\ call' = [call EXCEPT !.log = Append(@, Logged("service", [uuid |-> 6144]))]
    /\ UNCHANGED connVars

\* registration.add_characteristic(uuid, val, properties) and
\* add_characteristic_with_token(token, uuid, val, properties)
AddCharacteristic ==
    /\ RegistrationOpen
    /\ \E c \in CharacteristicCalls :
        /\ reg' = AddCharacteristicInternal(reg, c.token, c.uuid, <<7>>, c.properties)
        /\ call' = [call EXCEPT !.log = Append(@, Logged("characteristic", c))]
    /\ UNCHANGED connVars

\* registration.add_descriptor(uuid, val, writable)
AddDescriptor ==
    /\ RegistrationOpen
    /\ \E writable \in BOOLEAN :
        /\ reg' = AddDescriptorTo(reg, 10497, <<7>>, writable)
        /\ call' = [call EXCEPT !.log = Append(@, Logged("descriptor", [writable |-> writable]))]
    /\ UNCHANGED connVars

\* registration.build(): the Registration is consumed
BuildRegistration ==
    /\ call.fn = "registration"
    /\ ~call.built
    /\ call' = [call EXCEPT !.built = TRUE, !.out = Build(reg)]
    /\ UNCHANGED <<reg, connVars>>

NextRegistration ==
    \/ AddPrimaryService
    \/ AddCharacteristic
    \/ AddDescriptor
    \/ BuildRegistration

SpecRegistration == InitRegistration /\ [][NextRegistration]_vars

(***************************************************************************)
(* The range lookups of Database.  attrs is the BTreeMap: a function from  *)
(* handles to attributes [variant, permission, value, ...], value being    *)
(* the bytes Attribute::get returns.  A result is [ok |-> TRUE, list] or   *)
(* [ok |-> FALSE, handle, code].                                           *)
(***************************************************************************)
MaxHandle == 4

\* self.attrs.range(range): the keys in the range, ascending
RECURSIVE KeysIn(_, _, _)
KeysIn(attrs, start, end) ==
    LET ks == {h \in DOMAIN attrs : start <= h /\ h <= end}
    IN  IF ks = {} THEN <<>>
        ELSE LET k == CHOOSE x \in ks : \A y \in ks : x <= y
             IN  <<k>> \o KeysIn(attrs, k + 1, end)

\* a range check that lets a reversed range through
InvalidRangeZeroOnly(start, end) == start = 0

\* range.start() == &Handle::from(0x0000) || range.start() > range.end()
InvalidRange(start, end) == start = 0 \/ start > end

\* an error that reports handle 0x0000
LookupErrAtZero(handle, code) == [ok |-> FALSE, handle |-> 0, code |-> code]

LookupErr(handle, code) == [ok |-> FALSE, handle |-> handle, code |-> code]

\* a loop that keeps `last` at the first handle it saw
LastSeenFirst(last, key) == IF last = 0 THEN key ELSE last

\* last = key
LastSeen(last, key) == key

\* a length check that stops the loop at a shorter value only
LengthDiffersShorter(val_len, b) == val_len # -1 /\ Len(b) < val_len

\* a length check that never stops the loop
LengthDiffersNever(val_len, b) == FALSE

\* if let Some(len) = val_len { if len != b.len() ...: val_len is -1 for None
LengthDiffers(val_len, b) == val_len # -1 /\ val_len # Len(b)

\* Database::read_by_group_type: the loop over the attributes in the range.
\* current is <<>> for None, else <<[start, val]>>
RECURSIVE GroupLoop(_, _, _, _, _, _, _, _, _)
GroupLoop(attrs, keys, uuid, authorized, authentic, result, current, last, val_len) ==
    IF keys = <<>>
    THEN IF current # <<>>
         THEN [ok |-> TRUE,
               list |-> Append(result, [handle |-> current[1].start, end |-> last,
                                        value |-> current[1].val])]
         ELSE [ok |-> FALSE]
    ELSE LET key == Head(keys)
             val == attrs[key]
         IN  IF AttrType(val) = uuid
             THEN LET result1 ==
                        IF current # <<>>
                        THEN Append(result, [handle |-> current[1].start, end |-> last,
                                             value |-> current[1].val])
                        ELSE result
                      val_len1 == IF current # <<>> THEN Len(current[1].val) ELSE val_len
                      g == AttributeGet(val, authorized, authentic)
                  IN  IF ~g.ok THEN LookupErr(key, ReadErrorCode(g.err))
                      ELSE IF LengthDiffers(val_len1, g.v)
                      THEN [ok |-> TRUE, list |-> result1]
                      ELSE GroupLoop(attrs, Tail(keys), uuid, authorized, authentic,
                                     result1, <<[start |-> key, val |-> g.v]>>,
                                     LastSeen(last, key), val_len1)
             ELSE GroupLoop(attrs, Tail(keys), uuid, authorized, authentic,
                            result, current, LastSeen(last, key), val_len)

\* Database::read_by_group_type
ReadByGroupType(attrs, start, end, uuid, authorized, authentic) ==
    IF InvalidRange(start, end) THEN LookupErr(start, EcInvalidHandle)
    ELSE LET r == GroupLoop(attrs, KeysIn(attrs, start, end), uuid, authorized,
                            authentic, <<>>, <<>>, 0, -1)
         IN  IF ~r.ok /\ DOMAIN r = {"ok"} THEN LookupErr(start, EcAttributeNotFound)
             ELSE r

RECURSIVE HandlePairs(_, _)
HandlePairs(list, value) ==
    IF list = <<>> THEN <<>>
    ELSE (IF Head(list).value = value
          THEN <<[handle |-> Head(list).handle, end |-> Head(list).end]>> ELSE <<>>)
         \o HandlePairs(Tail(list), value)

\* Database::find_by_type_value
FindByTypeValue(attrs, start, end, uuid, value, authorized, authentic) ==
    LET r == ReadByGroupType(attrs, start, end, uuid, authorized, authentic)
    IN  IF ~r.ok THEN r
        ELSE LET result == HandlePairs(r.list, value)
             IN  IF result = <<>> THEN LookupErr(start, EcAttributeNotFound)
                 ELSE [ok |-> TRUE, list |-> result]

\* a read_by_type that leaves out the attributes it may not read
RECURSIVE TypeLoopSkipping(_, _, _, _, _, _)
TypeLoopSkipping(attrs, keys, uuid, authorized, authentic, result) ==
    IF keys = <<>> THEN [ok |-> TRUE, list |-> result]
    ELSE LET k == Head(keys)
             g == AttributeGet(attrs[k], authorized, authentic)
         IN  TypeLoopSkipping(attrs, Tail(keys), uuid, authorized, authentic,
                              IF AttrType(attrs[k]) = uuid /\ g.ok
                              THEN Append(result, [handle |-> k, value |-> g.v])
                              ELSE result)

\* the filter_map and collect::<Result<Vec<_>>> of read_by_type: the first
\* error ends it
RECURSIVE TypeLoop(_, _, _, _, _, _)
TypeLoop(attrs, keys, uuid, authorized, authentic, result) ==
    IF keys = <<>> THEN [ok |-> TRUE, list |-> result]
    ELSE LET k == Head(keys)
             v == attrs[k]
             g == AttributeGet(v, authorized, authentic)
         IN  IF AttrType(v) # uuid
             THEN TypeLoop(attrs, Tail(keys), uuid, authorized, authentic, result)
             ELSE IF ~g.ok THEN LookupErr(k, ReadErrorCode(g.err))
             ELSE TypeLoop(attrs, Tail(keys), uuid, authorized, authentic,
                           Append(result, [handle |-> k, value |-> g.v]))

\* Database::read_by_type
ReadByType(attrs, start, end, uuid, authorized, authentic) ==
    IF InvalidRange(start, end) THEN LookupErr(start, EcInvalidHandle)
    ELSE LET r == TypeLoop(attrs, KeysIn(attrs, start, end), uuid, authorized,
                           authentic, <<>>)
         IN  IF r.ok /\ r.list = <<>> THEN LookupErr(start, EcAttributeNotFound)
             ELSE r

\* a match that takes every Uuid for a 16 bit one
IsUuid16Always(u) == TRUE

\* Uuid::Uuid16 or Uuid::Uuid128: a 16 bit Uuid is its number
IsUuid16(u) == u < 65536

\* take_while of find_information: the entries up to the first Uuid of the
\* other width
RECURSIVE SameWidth(_, _, _)
SameWidth(attrs, keys, first) ==
    IF keys = <<>> THEN <<>>
    ELSE LET t == AttrType(attrs[Head(keys)])
         IN  IF IsUuid16(t) # IsUuid16(first) THEN <<>>
             ELSE <<[handle |-> Head(keys), uuid |-> t]>>
                    \o SameWidth(attrs, Tail(keys), first)

\* Database::find_information
FindInformation(attrs, start, end) ==
    IF InvalidRange(start, end) THEN LookupErr(start, EcInvalidHandle)
    ELSE LET keys == KeysIn(attrs, start, end)
         IN  IF keys = <<>> THEN LookupErr(start, EcAttributeNotFound)
             ELSE [ok |-> TRUE,
                   list |-> SameWidth(attrs, keys, AttrType(attrs[Head(keys)]))]

\* the attributes of the databases looked up: services with a 16 bit and a
\* 128 bit Uuid, a readable and an unreadable characteristic value, a
\* descriptor whose type is a 128 bit Uuid
LookupAttributes ==
    {[variant |-> "Service", primary |-> TRUE, permission |-> {"READABLE"},
      value |-> <<0, 24>>],
     [variant |-> "Service", primary |-> TRUE, permission |-> {"READABLE"},
      value |-> Uuid128Bytes],
     [variant |-> "CharacteristicValue", attr_type |-> 10752,
      permission |-> {"READABLE"}, value |-> <<7>>],
     [variant |-> "CharacteristicValue", attr_type |-> 10752,
      permission |-> {"WRITEABLE"}, value |-> <<7>>],
     [variant |-> "Descriptor", uuid |-> 70000, permission |-> {"READABLE"},
      value |-> <<7>>]}

\* databases with handles up to MaxHandle, gaps allowed
LookupDbs == UNION {[H -> LookupAttributes] : H \in SUBSET (1..MaxHandle)}

\* the ranges: any start, an end inside the database or 0xFFFF
LookupRanges ==
    {[start |-> a, end |-> b] :
        a \in 0..MaxHandle, b \in (1..(MaxHandle - 1)) \cup {65535}}

LookupFns == {"read_by_group_type", "find_by_type_value", "read_by_type", "find_information"}

\* the lookups and the types asked for: services and characteristic
\* values; find_by_type_value is asked for services, find_information
\* takes no type
LookupCalls ==
    {[fn |-> f, uuid |-> u] :
        f \in {"read_by_group_type", "read_by_type"}, u \in {10240, 10752}}
    \cup {[fn |-> f, uuid |-> 10240] : f \in {"find_by_type_value", "find_information"}}

\* the lookup applied to the arguments of the call
Lookup(c) ==
    CASE c.fn = "read_by_group_type" ->
            ReadByGroupType(c.attrs, c.range.start, c.range.end, c.uuid, FALSE, FALSE)
      [] c.fn = "find_by_type_value" ->
            FindByTypeValue(c.attrs, c.range.start, c.range.end, c.uuid, <<0, 24>>,
                            FALSE, FALSE)
      [] c.fn = "read_by_type" ->
            ReadByType(c.attrs, c.range.start, c.range.end, c.uuid, FALSE, FALSE)
      [] c.fn = "find_information" ->
            FindInformation(c.attrs, c.range.start, c.range.end)

InitDatabase ==
    /\ handlerKind = "default"
    /\ InitCommon
    /\ reg = RegistrationNew
    /\ \E c \in LookupCalls, d \in LookupDbs, r \in LookupRanges :
            call = [fn |-> c.fn, attrs |-> d, range |-> r, uuid |-> c.uuid,
                    done |-> FALSE, out |-> [ok |-> FALSE]]

\* db.read_by_group_type / find_by_type_value / read_by_type / find_information
ApplyLookup ==
    /\ call.fn \in LookupFns
    /\ ~call.done
    /\ call' = [call EXCEPT !.done = TRUE, !.out = Lookup(call)]
    /\ UNCHANGED <<reg, connVars>>

NextDatabase == ApplyLookup

SpecDatabase == InitDatabase /\ [][NextDatabase]_vars

(***************************************************************************)
(* A GATT connection: GattHandler serving reads and writes while the       *)
(* application may mark the connection authenticated.                      *)
(***************************************************************************)
\* the peer sends one datagram to the GATT connection
GattPeerSend ==
    /\ sent < MaxRequests
    /\ \E d \in GattDatagrams : ingress' = Append(ingress, d)
    /\ sent' = sent + 1
    /\ UNCHANGED <<libVars, eof, confSent, gattVars, sockVars, streamVars, runVars,
                   writerVars>>

\* Authenticator::mark_authenticated
MarkAuthenticated ==
    /\ ~authenticated
    /\ authenticated' = TRUE
    /\ UNCHANGED <<libVars, handlerKind, db, events, peerVars, sockVars, streamVars,
                   runVars, writerVars>>

InitGatt ==
    /\ handlerKind = "gatt"
    /\ InitCommon
    /\ InitLib

NextGatt ==
    \/ GattPeerSend
    \/ MarkAuthenticated
    \/ RunNext
    \/ RunSend
    \/ RunFlush

SpecGatt == InitGatt /\ [][NextGatt]_vars

(***************************************************************************)
(* Database::read and Database::write applied to one handle of a database  *)
(* whose second attribute has any set of permission bits.                  *)
(***************************************************************************)
PermissionFlags ==
    {"READABLE", "WRITEABLE", "AUTHORIZATION_REQUIRED", "AUTHENTICATION_REQUIRED"}

\* a service at 0x0001 and a characteristic value or a descriptor at 0x0002
AccessDbs ==
    {(1 :> [variant |-> "Service", permission |-> {"READABLE"}, value |-> <<0, 24>>])
     @@ (2 :> [variant |-> v, permission |-> p, value |-> <<7>>]) :
        v \in {"CharacteristicValue", "Descriptor"}, p \in SUBSET PermissionFlags}

\* handles: 0x0000, the two attributes, and one that no attribute has
AccessHandles == 0..3

AccessFns == {"read", "write"}

Access(c) ==
    IF c.fn = "read" THEN DatabaseRead(c.attrs, c.handle, c.authorized, c.authentic)
    ELSE DatabaseWrite(c.attrs, c.handle, c.val, c.authorized, c.authentic)

InitAccess ==
    /\ handlerKind = "default"
    /\ InitCommon
    /\ reg = RegistrationNew
    /\ call \in {[fn |-> f, attrs |-> d, handle |-> h, val |-> <<104>>,
                  authorized |-> z, authentic |-> n,
                  done |-> FALSE, out |-> [ok |-> FALSE]] :
                    f \in AccessFns, d \in AccessDbs, h \in AccessHandles,
                    z \in BOOLEAN, n \in BOOLEAN}

\* db.read(handle, authorized, authenticated) / db.write(handle, val, ...)
ApplyAccess ==
    /\ call.fn \in AccessFns
    /\ ~call.done
    /\ call' = [call EXCEPT !.done = TRUE, !.out = Access(call)]
    /\ UNCHANGED <<reg, connVars>>

NextAccess == ApplyAccess

SpecAccess == InitAccess /\ [][NextAccess]_vars

(***************************************************************************)
(* The codec: a PDU the server decodes, packed and unpacked again.         *)
(***************************************************************************)
\* to_le_bytes of an unsigned integer of n bytes
RECURSIVE LeBytes(_, _)
LeBytes(v, n) == IF n = 0 THEN <<>> ELSE <<v % 256>> \o LeBytes(v \div 256, n - 1)

\* Uuid::pack: Uuid16 as a u16, Uuid128 as a u128
PackUuid(u) == IF IsUuid16(u) THEN LeBytes(u, 2) ELSE LeBytes(u, 16)

\* SetOfHandles::pack: each handle
RECURSIVE PackHandles(_)
PackHandles(hs) == IF hs = <<>> THEN <<>> ELSE PackU16(Head(hs)) \o PackHandles(Tail(hs))

\* OpCode::pack, then the packable_struct! pack of the fields in
\* declaration order
PackRequest(p) ==
    <<p.op>> \o
    CASE p.op = OpExchangeMtuRequest -> PackU16(p.client_rx_mtu)
      [] p.op = OpFindInformationRequest ->
            PackU16(p.starting_handle) \o PackU16(p.ending_handle)
      [] p.op = OpFindByTypeValueRequest ->
            PackU16(p.starting_handle) \o PackU16(p.ending_handle)
                \o PackU16(p.attribute_type) \o p.attribute_value
      [] p.op \in {OpReadByTypeRequest, OpReadByGroupTypeRequest} ->
            PackU16(p.starting_handle) \o PackU16(p.ending_handle)
                \o PackUuid(p.attribute_type)
      [] p.op = OpReadRequest -> PackU16(p.attribute_handle)
      [] p.op = OpReadBlobRequest ->
            PackU16(p.attribute_handle) \o PackU16(p.attribute_offset)
      [] p.op = OpReadMultipleRequest -> PackHandles(p.set_of_handles)
      [] p.op \in {OpWriteRequest, OpWriteCommand} ->
            PackU16(p.attribute_handle) \o p.attribute_value
      [] p.op = OpSignedWriteCommand ->
            PackU16(p.attribute_handle) \o p.attribute_value
                \o p.authentication_signature
      [] p.op = OpPrepareWriteRequest ->
            PackU16(p.attribute_handle) \o PackU16(p.value_offset)
                \o p.part_attribute_value
      [] p.op = OpExecuteWriteRequest -> <<IF p.flags THEN 1 ELSE 0>>
      [] p.op = OpHandleValueConfirmation -> <<>>

CodecHandles == {1, 3, 65535}

CodecValues == {<<>>, <<104>>, <<104, 105>>}

\* a 16 bit and a 128 bit attribute type
CodecUuids == {10240, 70000}

\* an authentication signature: none, or twelve bytes
CodecSignatures == {<<>>, [i \in 1..12 |-> i]}

\* values of every PDU of the device_recv! list
CodecPdus ==
    {[op |-> OpExchangeMtuRequest, client_rx_mtu |-> m] : m \in ClientMtus}
    \cup {[op |-> OpFindInformationRequest, starting_handle |-> s, ending_handle |-> e] :
            s \in CodecHandles, e \in CodecHandles}
    \cup {[op |-> OpFindByTypeValueRequest, starting_handle |-> s, ending_handle |-> e,
           attribute_type |-> 10240, attribute_value |-> v] :
            s \in CodecHandles, e \in CodecHandles, v \in CodecValues}
    \cup {[op |-> o, starting_handle |-> s, ending_handle |-> e, attribute_type |-> u] :
            o \in {OpReadByTypeRequest, OpReadByGroupTypeRequest},
            s \in CodecHandles, e \in CodecHandles, u \in CodecUuids}
    \cup {[op |-> OpReadRequest, attribute_handle |-> h] : h \in CodecHandles}
    \cup {[op |-> OpReadBlobRequest, attribute_handle |-> h, attribute_offset |-> f] :
            h \in CodecHandles, f \in {0, 300}}
    \cup {[op |-> OpReadMultipleRequest, set_of_handles |-> hs] :
            hs \in {<<>>, <<1>>, <<3, 65535>>}}
    \cup {[op |-> o, attribute_handle |-> h, attribute_value |-> v] :
            o \in {OpWriteRequest, OpWriteCommand}, h \in CodecHandles, v \in CodecValues}
    \cup {[op |-> OpSignedWriteCommand, attribute_handle |-> h, attribute_value |-> v,
           authentication_signature |-> g] :
            h \in CodecHandles, v \in CodecValues, g \in CodecSignatures}
    \cup {[op |-> OpPrepareWriteRequest, attribute_handle |-> h, value_offset |-> f,
           part_attribute_value |-> v] :
            h \in CodecHandles, f \in {0, 300}, v \in CodecValues}
    \cup {[op |-> OpExecuteWriteRequest, flags |-> f] : f \in BOOLEAN}
    \cup {[op |-> OpHandleValueConfirmation]}

InitCodec ==
    /\ handlerKind = "default"
    /\ InitCommon
    /\ reg = RegistrationNew
    /\ call \in {[fn |-> "codec", pdu |-> p, done |-> FALSE, bytes |-> <<>>,
                  out |-> [ok |-> FALSE]] : p \in CodecPdus}

\* DeviceRecv::unpack of the packed PDU
ApplyCodec ==
    /\ call.fn = "codec"
    /\ ~call.done
    /\ call' = [call EXCEPT !.done = TRUE, !.bytes = PackRequest(call.pdu),
                            !.out = DeviceRecvUnpack(PackRequest(call.pdu))]
    /\ UNCHANGED <<reg, connVars>>

NextCodec == ApplyCodec

SpecCodec == InitCodec /\ [][NextCodec]_vars

(***************************************************************************)
(* Database::write applied to a Client or Server Characteristic            *)
(* Configuration descriptor.                                               *)
(***************************************************************************)
\* a database of one configuration descriptor, with any flags set
ConfigurationDbs ==
    UNION {{(1 :> [variant |-> v, configuration |-> c,
                   permission |-> {"READABLE", "WRITEABLE"}]) :
                c \in SUBSET DOMAIN ConfigurationBits(v)} :
            v \in ConfigurationVariants}

\* the values written: none to three bytes
ConfigurationWrites ==
    UNION {[1..n -> 0..3] : n \in 0..3}

InitConfiguration ==
    /\ handlerKind = "default"
    /\ InitCommon
    /\ reg = RegistrationNew
    /\ \E d \in ConfigurationDbs, v \in ConfigurationWrites :
            call = [fn |-> "write_configuration", attrs |-> d, handle |-> 1, val |-> v,
                    done |-> FALSE, out |-> [ok |-> FALSE]]

\* db.write(handle, val, false, false)
ApplyConfiguration ==
    /\ call.fn = "write_configuration"
    /\ ~call.done
    /\ call' = [call EXCEPT !.done = TRUE,
                            !.out = DatabaseWrite(call.attrs, call.handle, call.val,
                                                  FALSE, FALSE)]
    /\ UNCHANGED <<reg, connVars>>

NextConfiguration == ApplyConfiguration

SpecConfiguration == InitConfiguration /\ [][NextConfiguration]_vars

(***************************************************************************)
(* truncate applied to a Prepare Write Response.                           *)
(***************************************************************************)
\* responses whose part value has every length up to two bytes past the
\* default MTU
PrepareWriteResponses ==
    {[op |-> OpPrepareWriteResponse, attribute_handle |-> 3, value_offset |-> f,
      part_attribute_value |-> [i \in 1..n |-> 7]] :
        f \in {0, 300}, n \in 0..(DEFAULT_MTU + 2)}

InitPrepare ==
    /\ handlerKind = "default"
    /\ InitCommon
    /\ reg = RegistrationNew
    /\ \E p \in PrepareWriteResponses, m \in ListMtus :
            call = [fn |-> "truncate_prepare", pdu |-> p, mtu |-> m, done |-> FALSE,
                    panic |-> FALSE, out |-> p]

\* r.truncate(mtu)
ApplyPrepare ==
    /\ call.fn = "truncate_prepare"
    /\ ~call.done
    /\ \E o \in Truncate(call.pdu, call.mtu) :
            call' = [call EXCEPT !.done = TRUE, !.panic = o.panic, !.out = o.pdu]
    /\ UNCHANGED <<reg, connVars>>

NextPrepare == ApplyPrepare

SpecPrepare == InitPrepare /\ [][NextPrepare]_vars

(***************************************************************************)
(* PacketStream::poll_flush on a transport whose poll_write may accept     *)
(* any part of the bytes it is given.                                      *)
(***************************************************************************)
\* PDUs in the egress buffer after start_send
FlushPdus ==
    {[op |-> OpExchangeMtuResponse, server_rx_mtu |-> DEFAULT_MTU],
     NewErrorResponse(OpReadRequest, 3, EcAttributeNotFound),
     [op |-> OpReadResponse, attribute_value |-> <<104, 105, 106, 107>>],
     [op |-> OpWriteResponse],
     [op |-> OpHandleValueNotification, attribute_handle |-> 1,
      attribute_value |-> <<111, 107>>],
     [op |-> OpHandleValueIndication, attribute_handle |-> 1,
      attribute_value |-> <<111, 107, 33>>]}

\* start_send has packed the PDU; nothing is written yet
InitFlush ==
    /\ handlerKind = "default"
    /\ InitCommon
    /\ reg = RegistrationNew
    /\ \E p \in FlushPdus :
            call = [fn |-> "poll_flush", pdu |-> p, txbuf |-> PackWithCode(p),
                    txlen |-> Len(PackWithCode(p)), written |-> <<>>]

\* one turn of the loop of poll_flush: inner.poll_write(&txbuf[..*txlen])
\* is Ready(n), and *txlen -= n
FlushWrite ==
    /\ call.fn = "poll_flush"
    /\ call.txlen # 0
    /\ \E n \in 1..call.txlen :
            call' = [call EXCEPT !.written = @ \o Take(Take(call.txbuf, call.txlen), n),
                                 !.txlen = @ - n]
    /\ UNCHANGED <<reg, connVars>>

NextFlush == FlushWrite

SpecFlush == InitFlush /\ [][NextFlush]_vars

(***************************************************************************)
(* What the properties observe.                                            *)
(***************************************************************************)
\* the PDUs handled so far whose handler returned a response or an error
Answered(l) == SelectSeq(l, LAMBDA e : e.t \in {"ok", "err"})

\* the PDUs on the transport that are no notification and no indication
IsResponse(b) == b[1] \notin {OpHandleValueNotification, OpHandleValueIndication}

Responses(w) == SelectSeq(w, IsResponse)

\* the bytes of the Error Response to a request: 01, opcode, handle, code
ErrorBytes(op, handle, code) ==
    <<OpErrorResponse, op, handle % 256, handle \div 256, code>>

\* b answers the answered PDU e: the Error Response with e's opcode, handle
\* and code, or the response whose opcode follows the request's
ResponseTo(b, e) ==
    IF e.t = "err" THEN b = ErrorBytes(e.op, e.handle, e.code)
    ELSE b[1] = e.op + 1

\* handle() has returned for the i-th PDU of the log
Handled(i) == i < Len(log) \/ runPc \in {"next", "done"}

\* the number of answered PDUs among the first i of the log
AnsweredUpTo(i) == Len(Answered(SubSeq(log, 1, i)))

\* the confirmations run has handled
ConfirmationsHandled(l) ==
    Len(SelectSeq(l, LAMBDA e : e.op = OpHandleValueConfirmation))

(***************************************************************************)
(* C1.  Requests are handled in receive order, and when the handler for a  *)
(* PDU is invoked the response (or Error Response) to every request        *)
(* received before it is on the transport, in that order, whatever the     *)
(* notification and indication writers did in between.                     *)
(***************************************************************************)
C1ResponseBeforeNextHandler ==
    [][Len(log') > Len(log) =>
         LET a == Answered(log)
             r == Responses(wire)
         IN  /\ Len(r) = Len(a)
             /\ \A k \in 1..Len(a) : ResponseTo(r[k], a[k])]_vars

\* two different requests were answered with a writer's PDU between the
\* two responses
C1Witness ==
    /\ Len(log) = 2
    /\ Len(Answered(log)) = 2
    /\ log[1].op # log[2].op
    /\ Len(wire) = 3
    /\ IsResponse(wire[1]) /\ ~IsResponse(wire[2]) /\ IsResponse(wire[3])

(***************************************************************************)
(* C2.  Whenever the Handler returned ErrorResponse(handle, code) for a    *)
(* request and handle() is through with it, the transport carries, in the  *)
(* request's place among the responses, the Error Response with the        *)
(* request's opcode, that handle and that code, and no response is there   *)
(* that no request asked for.                                              *)
(***************************************************************************)
C2ErrorResponseEmitted ==
    /\ Len(Responses(wire)) <= Len(Answered(log))
    /\ \A i \in 1..Len(log) :
        log[i].t = "err" /\ Handled(i) =>
            LET k == AnsweredUpTo(i)
            IN  /\ Len(Responses(wire)) >= k
                /\ Responses(wire)[k] = ErrorBytes(log[i].op, log[i].handle, log[i].code)

(***************************************************************************)
(* C3.  At most one indication is on the transport without the peer        *)
(* having sent its confirmation.                                           *)
(***************************************************************************)
C3OneUnconfirmedIndication == Len(indSeq) - confSent <= 1

(***************************************************************************)
(* C4.  The channel of a waiting indication write is resolved only by run  *)
(* handling a confirmation, the k-th confirmation resolving the k-th       *)
(* indication put on the transport, with success; no other step completes, *)
(* fails or discards a waiter.                                             *)
(***************************************************************************)
C4ConfirmationsInOrder ==
    [][\A w \in IndWriters :
         chan[w] = "open" /\ chan'[w] # "open" =>
            /\ chan'[w] = "sent"
            /\ ConfirmationsHandled(log') = ConfirmationsHandled(log) + 1
            /\ indSeq[ConfirmationsHandled(log')] = w]_vars

(***************************************************************************)
(* C5.  An indication write that waits for its confirmation, with the      *)
(* peer's confirmation sent, eventually returns success, unless the run    *)
(* future has ended.                                                       *)
(***************************************************************************)
C5ConfirmedWriteSucceeds ==
    (wCall[LiveWriter] = "pending" /\ chan[LiveWriter] = "open" /\ confSent = Len(indSeq))
        ~> (wCall[LiveWriter] = "ok" \/ runResult # "running")

(***************************************************************************)
(* C6.  An indication write that was waiting for its confirmation when     *)
(* the run future ended eventually returns.                                *)
(***************************************************************************)
C6WaiterReleasedAtEnd ==
    (<<LiveWriter, writes[LiveWriter]>> \in endWaiters /\ wCall[LiveWriter] = "pending")
        ~> (wCall[LiveWriter] # "pending")

(***************************************************************************)
(* C7.  The MTU that sizes and truncates outgoing PDUs is 23 until an      *)
(* Exchange MTU succeeds, and the smaller of the client's and the          *)
(* Handler's rx MTU of the last successful exchange afterwards.            *)
(***************************************************************************)
C7WorkingMtuIsMin ==
    LET x == SelectSeq(log, LAMBDA e : e.op = OpExchangeMtuRequest /\ e.t = "ok")
    IN  txmtu = IF x = <<>> THEN DEFAULT_MTU
                ELSE Min(x[Len(x)].client, x[Len(x)].server)

(***************************************************************************)
(* C8.  Under the default and the GATT handler every Exchange MTU Request  *)
(* handle() is through with has its Exchange MTU Response, carrying the    *)
(* client's rx MTU, on the transport.                                      *)
(***************************************************************************)
C8MtuEchoed ==
    handlerKind \in {"default", "gatt"} =>
        \A i \in 1..Len(log) :
            log[i].op = OpExchangeMtuRequest /\ Handled(i) =>
                LET k == AnsweredUpTo(i)
                IN  /\ Len(wire) >= k
                    /\ wire[k] = <<OpExchangeMtuResponse, log[i].client % 256,
                                   log[i].client \div 256>>

(***************************************************************************)
(* C9.  The step that handles a Write Command or a Signed Write Command    *)
(* puts nothing on the transport and nothing in the egress buffer, and     *)
(* leaves run waiting for the next PDU, whether the database write         *)
(* succeeded or failed.                                                    *)
(***************************************************************************)
C9CommandsAreSilent ==
    [][(Len(log') > Len(log)
            /\ log'[Len(log')].op \in {OpWriteCommand, OpSignedWriteCommand}) =>
         /\ wire' = wire
         /\ txlen' = txlen
         /\ runPc' = "next"
         /\ runResult' = "running"]_vars

\* the GATT handler handled a command whose database write failed and then
\* one whose write succeeded
C9Witness ==
    /\ handlerKind = "gatt"
    /\ Len(log) = 2
    /\ log[1].op \in {OpWriteCommand, OpSignedWriteCommand} /\ log[1].wrote = "fail"
    /\ log[2].op \in {OpWriteCommand, OpSignedWriteCommand} /\ log[2].wrote = "ok"
    /\ wire = <<>>
    /\ runResult = "running"

(***************************************************************************)
(* C10.  Under a Handler that overrides nothing, run never unwinds, and    *)
(* every request other than Exchange MTU that handle() is through with     *)
(* has on the transport the Error Response with RequestNotSupported, its   *)
(* opcode and the handle its datagram starts with (0 for Execute Write).   *)
(***************************************************************************)
C10DefaultRequestNotSupported ==
    handlerKind = "default" =>
        /\ runResult # "panic"
        /\ \A i \in 1..Len(log) :
            log[i].op \in RequestOps \ {OpExchangeMtuRequest} /\ Handled(i) =>
                LET k == AnsweredUpTo(i)
                    d == log[i].dgram
                    h == IF d[1] = OpExecuteWriteRequest \/ Len(d) < 3 THEN 0
                         ELSE d[2] + 256 * d[3]
                IN  /\ Len(wire) >= k
                    /\ wire[k] = ErrorBytes(d[1], h, EcRequestNotSupported)

(***************************************************************************)
(* C11.  The step in which run reads the end of the stream (nothing        *)
(* queued, the peer closed) ends run with success and puts nothing on the  *)
(* transport or in the egress buffer, and once run has ended with success  *)
(* the transport never changes again.                                      *)
(***************************************************************************)
C11EofEndsRunCleanly ==
    [][/\ (runPc = "next" /\ ingress = <<>> /\ eof) =>
            /\ runResult' = "ok"
            /\ runPc' = "done"
            /\ wire' = wire
            /\ txlen' = txlen
       /\ runResult = "ok" =>
            /\ runResult' = "ok"
            /\ wire' = wire
            /\ txlen' = txlen]_vars

\* run answered two requests and then ended with success at the end of the
\* stream
C11Witness ==
    /\ eof
    /\ runResult = "ok"
    /\ Len(wire) = 2
    /\ Len(log) = 2

(***************************************************************************)
(* C12.  The step in which run reads a datagram that cannot be decoded (an *)
(* unknown opcode, a server-to-client opcode, a body too short) ends run   *)
(* with an error, not a panic, dispatches nothing and puts nothing on the  *)
(* transport or in the egress buffer; nor does any later step.             *)
(***************************************************************************)
C12DecodeErrorEndsRun ==
    [][/\ (runPc = "next" /\ ingress # <<>> /\ Head(ingress) \in BadDatagrams
              /\ ingress' = Tail(ingress)) =>
            /\ runResult' = "err"
            /\ runPc' = "done"
            /\ log' = log
            /\ wire' = wire
            /\ txlen' = txlen
       /\ (runResult = "err" /\ runPc = "done") =>
            /\ runResult' = "err"
            /\ wire' = wire
            /\ txlen' = txlen]_vars

\* under the GATT handler run answered a request and then ended with an
\* error on an undecodable datagram
C12Witness ==
    /\ handlerKind = "gatt"
    /\ runResult = "err"
    /\ Len(log) = 1
    /\ Len(wire) = 1
    /\ sent = 2
    /\ ingress = <<>>
    /\ txmtu = DEFAULT_MTU

\* C13: for each list response (Find Information, Find By Type Value, Read
\* By Type, Read By Group Type) and every MTU m of a connection,
\* truncate(m) leaves a prefix of the entries and the encoded PDU (opcode,
\* list header, entries) is at most m bytes long
C13TruncatedListFits ==
    (call.fn = "truncate" /\ call.done) =>
        /\ ~call.panic
        /\ IsPrefix(call.out.values, call.pdu.values)
        /\ EncodedSize(call.out) <= call.mtu
        /\ LET b == PackListResponse(call.out)
           IN  ~b.panic => Len(b.bytes) = EncodedSize(call.out)

\* a Read By Group Type response of three entries cut to its first two
C13Witness ==
    /\ call.fn = "truncate" /\ call.done
    /\ call.pdu.op = OpReadByGroupTypeResponse
    /\ Len(call.pdu.values) = 3 /\ Len(call.out.values) = 2
    /\ ~PackListResponse(call.out).panic
    /\ Len(PackListResponse(call.out).bytes) = call.mtu

\* the attributes a logged call created: from its position up to the next
\* call's position
CallEnd(i) ==
    IF i < Len(call.log) THEN call.log[i + 1].pos - 1 ELSE Len(reg.attrs)

CharacteristicCallsLogged ==
    {i \in 1..Len(call.log) : call.log[i].kind = "characteristic"}

\* C14: after any sequence of add_primary_service / add_characteristic /
\* add_characteristic_with_token / add_descriptor calls on a new
\* Registration, the handles of the attributes of the built Database are
\* exactly 0x0001..n, n the number of attributes created: unique, strictly
\* ascending in creation order, without gaps, never 0x0000
C14HandlesSequential ==
    (call.fn = "registration" /\ call.built) =>
        /\ \A i \in 1..Len(reg.attrs) : reg.attrs[i].handle = i
        /\ DOMAIN call.out.db = 1..Len(reg.attrs)
        /\ \A h \in DOMAIN call.out.db : call.out.db[h] = reg.attrs[h]
        /\ Len(reg.attrs) >= Len(call.log)

\* a service, a characteristic with all three descriptors and a descriptor,
\* built: seven attributes
C14Witness ==
    /\ call.fn = "registration" /\ call.built
    /\ Len(call.log) = 3
    /\ DOMAIN call.out.db = 1..7
    /\ call.out.db[7].variant = "Descriptor"

\* the attributes a logged add_characteristic call created after the
\* declaration and the value
CreatedDescriptors(i) ==
    {reg.attrs[j] : j \in (call.log[i].pos + 2)..CallEnd(i)}

\* Extended Properties, then CCC, then SCC
DescriptorRank(a) ==
    CASE AttrType(a) = 10496 -> 1
      [] AttrType(a) = 10498 -> 2
      [] AttrType(a) = 10499 -> 3
      [] OTHER -> 0

\* C15: every add_characteristic call inserts a Characteristic declaration
\* at some handle h and its value attribute at h+1; the declaration's
\* value-handle field is h+1 and its UUID is the value attribute's type;
\* the automatically created descriptors follow at h+2.. in the order
\* Extended Properties, CCC, SCC
C15CharacteristicLayout ==
    call.fn = "registration" =>
        \A i \in CharacteristicCallsLogged :
            LET p == call.log[i].pos
                e == CallEnd(i)
                h == reg.attrs[p].handle
            IN  /\ e >= p + 1
                /\ AttrType(reg.attrs[p]) = 10243
                /\ reg.attrs[p + 1].variant = "CharacteristicValue"
                /\ reg.attrs[p + 1].handle = h + 1
                /\ reg.attrs[p].value_handle = h + 1
                /\ reg.attrs[p].uuid = AttrType(reg.attrs[p + 1])
                /\ reg.attrs[p].uuid = call.log[i].c.uuid
                /\ \A j \in (p + 2)..e :
                        /\ DescriptorRank(reg.attrs[j]) > 0
                        /\ reg.attrs[j].handle = h + (j - p)
                /\ \A j, k \in (p + 2)..e :
                        j < k => DescriptorRank(reg.attrs[j]) < DescriptorRank(reg.attrs[k])

\* a characteristic with every property after a service: declaration at 2,
\* value at 3, Extended Properties, CCC and SCC at 4, 5 and 6
C15Witness ==
    /\ call.fn = "registration"
    /\ Len(call.log) = 2
    /\ call.log[2].kind = "characteristic"
    /\ call.log[2].c.properties = CharacteristicPropertyFlags
    /\ Len(reg.attrs) = 6
    /\ reg.attrs[2].value_handle = 3
    /\ AttrType(reg.attrs[6]) = 10499

\* C16: for every characteristic added with property set P, a 0x2900
\* descriptor is created iff P contains RELIABLE_WRITE or
\* WRITABLE_AUXILIARIES, and then the declaration has EXTENDED_PROPERTIES
\* and the descriptor's bits are exactly those flags; a 0x2902 descriptor
\* is created iff P contains NOTIFY or INDICATE; a 0x2903 descriptor is
\* created iff P contains BROADCAST
C16DescriptorsMatchProperties ==
    call.fn = "registration" =>
        \A i \in CharacteristicCallsLogged :
            LET P == call.log[i].c.properties
                decl == reg.attrs[call.log[i].pos]
                ds == CreatedDescriptors(i)
                ex == P \cap {"RELIABLE_WRITE", "WRITABLE_AUXILIARIES"}
            IN  /\ (\E a \in ds : AttrType(a) = 10496) <=> ex # {}
                /\ \A a \in ds : AttrType(a) = 10496 =>
                        /\ "EXTENDED_PROPERTIES" \in decl.properties
                        /\ a.extended_properties = ex
                /\ ("EXTENDED_PROPERTIES" \in decl.properties) <=> ex # {}
                /\ (\E a \in ds : AttrType(a) = 10498)
                        <=> ("NOTIFY" \in P \/ "INDICATE" \in P)
                /\ (\E a \in ds : AttrType(a) = 10499) <=> "BROADCAST" \in P
                /\ \A a, b \in ds : AttrType(a) = AttrType(b) => a = b

\* a characteristic with RELIABLE_WRITE alone: one descriptor, 0x2900 with
\* that bit, and a declaration with EXTENDED_PROPERTIES alone
C16Witness ==
    /\ call.fn = "registration"
    /\ Len(call.log) = 1
    /\ call.log[1].kind = "characteristic"
    /\ call.log[1].c.properties = {"RELIABLE_WRITE"}
    /\ Len(reg.attrs) = 3
    /\ reg.attrs[1].properties = {"EXTENDED_PROPERTIES"}
    /\ reg.attrs[3].extended_properties = {"RELIABLE_WRITE"}

\* the characteristics registered: token, value handle and properties
RegisteredCharacteristics ==
    {[token |-> call.log[i].c.token, v |-> reg.attrs[call.log[i].pos + 1].handle,
      P |-> call.log[i].c.properties] : i \in CharacteristicCallsLogged}

\* C17: after build, write_tokens maps value handle v to token t iff a
\* characteristic registered with token t has value handle v and is
\* writable (WRITE or WRITE_WITHOUT_RESPONSE); notify_handles maps t to v
\* only if a characteristic registered with t has NOTIFY or INDICATE and
\* value handle v; characteristics added without a token are in neither
C17TokenMaps ==
    (call.fn = "registration" /\ call.built) =>
        LET wt == call.out.write_tokens
            nh == call.out.notify_handles
            cs == RegisteredCharacteristics
        IN  /\ DOMAIN wt \subseteq {c.v : c \in cs}
            /\ DOMAIN nh \subseteq Tokens
            /\ \A c \in cs :
                    (c.v \in DOMAIN wt) <=>
                        /\ c.token # "none"
                        /\ c.P \cap {"WRITE", "WRITE_WITHOUT_RESPONSE"} # {}
            /\ \A c \in cs : c.v \in DOMAIN wt => wt[c.v] = c.token
            /\ \A t \in DOMAIN nh :
                    \E c \in cs :
                        /\ c.token = t /\ c.v = nh[t]
                        /\ c.P \cap {"NOTIFY", "INDICATE"} # {}
            /\ \A c \in cs :
                    c.token = "none" => \A t \in DOMAIN nh : nh[t] # c.v

\* built from a writable characteristic with token T, a notifying one with
\* token U and a writable one without a token
C17Witness ==
    /\ call.fn = "registration" /\ call.built
    /\ Len(call.log) = 3
    /\ DOMAIN call.out.write_tokens = {2}
    /\ call.out.write_tokens[2] = "T"
    /\ DOMAIN call.out.notify_handles = {"U"}
    /\ call.out.notify_handles["U"] = 4
    /\ call.log[3].c.token = "none"
    /\ "WRITE" \in call.log[3].c.properties

\* C18: read_by_group_type, find_by_type_value, read_by_type and
\* find_information each return the error (start, InvalidHandle) whenever
\* start is 0x0000 or start > end, for any database contents, and never
\* return InvalidHandle for a range with 0 < start <= end
C18InvalidRangeRejected ==
    (call.fn \in LookupFns /\ call.done) =>
        IF call.range.start = 0 \/ call.range.start > call.range.end
        THEN call.out = [ok |-> FALSE, handle |-> call.range.start,
                         code |-> EcInvalidHandle]
        ELSE call.out.ok \/ call.out.code # EcInvalidHandle

\* find_by_type_value over the reversed range 3..=2 of a database with
\* services at both handles
C18Witness ==
    /\ call.fn = "find_by_type_value" /\ call.done
    /\ call.range = [start |-> 3, end |-> 2]
    /\ DOMAIN call.attrs = {2, 3}
    /\ call.attrs[2].variant = "Service" /\ call.attrs[3].variant = "Service"
    /\ call.uuid = 10240
    /\ ~call.out.ok /\ call.out.handle = 3 /\ call.out.code = EcInvalidHandle

\* the handles present in the range of the call
KeysOfCall == {h \in DOMAIN call.attrs : call.range.start <= h /\ h <= call.range.end}

Lowest(S) == CHOOSE x \in S : \A y \in S : x <= y

Highest(S) == CHOOSE x \in S : \A y \in S : x >= y

GroupsReturned ==
    call.fn = "read_by_group_type" /\ call.done /\ call.out.ok

\* C19, as stated: in every read_by_group_type result for the service
\* declaration type, a group's end handle is the handle immediately before
\* the next Primary/Secondary Service declaration, and is 0xFFFF for a
\* service that has no later service declaration
C19GroupEndsBeforeNextService ==
    (GroupsReturned /\ call.uuid = 10240) =>
        \A i \in 1..Len(call.out.list) :
            LET e == call.out.list[i]
                later == {h \in DOMAIN call.attrs :
                            h > e.handle /\ AttrType(call.attrs[h]) \in {10240, 10241}}
            IN  e.end = IF later = {} THEN 65535 ELSE Lowest(later) - 1

\* C19, amended: in every read_by_group_type result for the service
\* declaration type, a group's end handle is the handle of the last
\* attribute present in the requested range before the next service
\* declaration in the range, and of the last attribute present in the
\* range for a service with no later service declaration in the range
C19GroupEndsAtLastAttribute ==
    (GroupsReturned /\ call.uuid = 10240) =>
        \A i \in 1..Len(call.out.list) :
            LET e == call.out.list[i]
                later == {h \in KeysOfCall :
                            h > e.handle /\ AttrType(call.attrs[h]) = 10240}
                before == IF later = {} THEN KeysOfCall
                          ELSE {h \in KeysOfCall : h < Lowest(later)}
            IN  e.end = Highest(before)

\* services at 1 and 4, a characteristic value at 2, nothing at 3, looked up
\* over 1..=0xFFFF: the groups end at 2 and at 4
C19Witness ==
    /\ GroupsReturned /\ call.uuid = 10240
    /\ call.range = [start |-> 1, end |-> 65535]
    /\ DOMAIN call.attrs = {1, 2, 4}
    /\ Len(call.out.list) = 2
    /\ call.out.list[1].handle = 1 /\ call.out.list[1].end = 2
    /\ call.out.list[2].handle = 4 /\ call.out.list[2].end = 4

\* the handles in the range whose attribute has the requested type, ascending
MatchingKeys ==
    SelectSeq(KeysIn(call.attrs, call.range.start, call.range.end),
              LAMBDA k : AttrType(call.attrs[k]) = call.uuid)

\* the end of the group of the i-th matching attribute: the last attribute
\* present in the range before the next matching one
GroupEnd(i) ==
    LET ms == MatchingKeys
    IN  Highest({h \in KeysOfCall : i < Len(ms) => h < ms[i + 1]})

\* C20, as stated: read_by_group_type returns, in ascending handle order,
\* one entry per attribute in the range whose type equals the requested
\* type: (its handle, the handle of the last attribute present in the range
\* before the next matching attribute or before the end of the range, its
\* value)
C20OneEntryPerMatch ==
    GroupsReturned =>
        /\ Len(call.out.list) = Len(MatchingKeys)
        /\ \A i \in 1..Len(call.out.list) :
                call.out.list[i] = [handle |-> MatchingKeys[i], end |-> GroupEnd(i),
                                    value |-> call.attrs[MatchingKeys[i]].value]

\* C20, amended: when read_by_group_type returns a list, it holds, in
\* ascending handle order, one entry (handle, handle of the last attribute
\* present in the range before the next matching attribute or before the
\* end of the range, value) per attribute of the requested type in the
\* range, up to the first one whose value is not as long as that of the
\* first
C20OneEntryPerMatchOfEqualLength ==
    GroupsReturned =>
        LET ms == MatchingKeys
            n == Len(call.out.list)
            len1 == Len(call.attrs[ms[1]].value)
        IN  /\ 1 <= n /\ n <= Len(ms)
            /\ \A i \in 1..n :
                    /\ call.out.list[i] = [handle |-> ms[i], end |-> GroupEnd(i),
                                           value |-> call.attrs[ms[i]].value]
                    /\ Len(call.attrs[ms[i]].value) = len1
            /\ n < Len(ms) => Len(call.attrs[ms[n + 1]].value) # len1

\* services with 16 bit Uuids at 1 and 2 and one with a 128 bit Uuid at 3:
\* the first two are returned
C20Witness ==
    /\ GroupsReturned
    /\ call.range = [start |-> 1, end |-> 65535]
    /\ DOMAIN call.attrs = {1, 2, 3, 4}
    /\ Len(MatchingKeys) = 3
    /\ Len(call.out.list) = 2
    /\ call.out.list[2].end = 2
    /\ Len(call.attrs[3].value) = 16

\* the number of leading matching attributes whose value is as long as
\* that of the first
RECURSIVE EqualLengthRun(_, _)
EqualLengthRun(ms, k) ==
    IF k > Len(ms) THEN Len(ms)
    ELSE IF Len(call.attrs[ms[k]].value) # Len(call.attrs[ms[1]].value) THEN k - 1
    ELSE EqualLengthRun(ms, k + 1)

\* C21: all entries returned by one read_by_group_type call have values of
\* equal length, and the result is the longest prefix of the matching
\* groups in the range whose values have the length of the first group's
\* value: a group with a different length and everything after it is left
\* out
C21EqualLengthPrefix ==
    GroupsReturned =>
        /\ \A i, j \in 1..Len(call.out.list) :
                Len(call.out.list[i].value) = Len(call.out.list[j].value)
        /\ Len(call.out.list) = EqualLengthRun(MatchingKeys, 1)
        /\ \A i \in 1..Len(call.out.list) : call.out.list[i].handle = MatchingKeys[i]

\* a service with a 128 bit Uuid at 1, then services with 16 bit Uuids:
\* the first alone is returned
C21Witness ==
    /\ GroupsReturned
    /\ call.range = [start |-> 1, end |-> 3]
    /\ DOMAIN call.attrs = {1, 2, 3}
    /\ Len(MatchingKeys) = 3
    /\ Len(call.attrs[2].value) = 2 /\ Len(call.attrs[3].value) = 2
    /\ Len(call.out.list) = 1
    /\ Len(call.out.list[1].value) = 16

\* the range of the call is valid
ValidRange == 0 < call.range.start /\ call.range.start <= call.range.end

TypeIs16(h) == AttrType(call.attrs[h]) < 65536

\* C23: find_information returns, in ascending handle order, the maximal
\* run of consecutive attributes of the range that starts at the first
\* attribute in the range and whose type Uuids all have the width (16 bit
\* or 128 bit) of that first attribute's type
C23SameWidthRun ==
    (call.fn = "find_information" /\ call.done /\ ValidRange /\ KeysOfCall # {}) =>
        LET ks == KeysIn(call.attrs, call.range.start, call.range.end)
            n == IF call.out.ok THEN Len(call.out.list) ELSE 0
        IN  /\ call.out.ok
            /\ 1 <= n /\ n <= Len(ks)
            /\ \A i \in 1..n :
                    /\ call.out.list[i] = [handle |-> ks[i],
                                           uuid |-> AttrType(call.attrs[ks[i]])]
                    /\ TypeIs16(ks[i]) = TypeIs16(ks[1])
            /\ n < Len(ks) => TypeIs16(ks[n + 1]) # TypeIs16(ks[1])

\* two attributes with 128 bit types at 2 and 3, then one with a 16 bit
\* type at 4, looked up from 2: the first two are returned
C23Witness ==
    /\ call.fn = "find_information" /\ call.done
    /\ call.range = [start |-> 2, end |-> 65535]
    /\ DOMAIN call.attrs = {1, 2, 3, 4}
    /\ ~TypeIs16(2) /\ ~TypeIs16(3) /\ TypeIs16(4)
    /\ call.out.ok
    /\ Len(call.out.list) = 2
    /\ call.out.list[2] = [handle |-> 3, uuid |-> 70000]

RECURSIVE ValuesAt(_)
ValuesAt(ks) ==
    IF ks = <<>> THEN <<>>
    ELSE <<[handle |-> Head(ks), value |-> call.attrs[Head(ks)].value]>>
            \o ValuesAt(Tail(ks))

\* C24: read_by_type returns every (handle, value) of the range whose type
\* equals the requested type, in ascending handle order, when all of them
\* pass the permission check; if any matching attribute fails its
\* permission check, the whole call fails with the error code and handle
\* of the first (lowest-handle) such attribute
C24AllOrFirstError ==
    (call.fn = "read_by_type" /\ call.done /\ ValidRange /\ MatchingKeys # <<>>) =>
        LET failing == {h \in KeysOfCall :
                            /\ AttrType(call.attrs[h]) = call.uuid
                            /\ AccessError(call.attrs[h], "READABLE", FALSE, FALSE) # "none"}
        IN  IF failing = {}
            THEN call.out = [ok |-> TRUE, list |-> ValuesAt(MatchingKeys)]
            ELSE call.out =
                    [ok |-> FALSE, handle |-> Lowest(failing),
                     code |-> ReadErrorCode(AccessError(call.attrs[Lowest(failing)],
                                                        "READABLE", FALSE, FALSE))]

\* a readable characteristic value at 1 and unreadable ones at 2 and 3:
\* Read Not Permitted at 2
C24Witness ==
    /\ call.fn = "read_by_type" /\ call.done
    /\ call.uuid = 10752
    /\ call.range = [start |-> 1, end |-> 65535]
    /\ DOMAIN call.attrs = {1, 2, 3}
    /\ Len(MatchingKeys) = 3
    /\ "READABLE" \in call.attrs[1].permission
    /\ "READABLE" \notin call.attrs[2].permission
    /\ "READABLE" \notin call.attrs[3].permission
    /\ call.out = [ok |-> FALSE, handle |-> 2, code |-> EcReadNotPermitted]

\* C25: a Read By Type request whose matching attributes have values of
\* different lengths is answered with a Read By Type Response that holds
\* only the leading entries whose value is as long as the first entry's;
\* nothing panics while the response is built (the handler collects what
\* read_by_type returns), truncated to the MTU and encoded
C25ReadByTypeResponseUniform ==
    (call.fn = "read_by_type" /\ call.done /\ call.out.ok) =>
        \A m \in ServerMtus :
            \A o \in Truncate([op |-> OpReadByTypeResponse, values |-> call.out.list], m) :
                /\ ~o.panic
                /\ \A i \in 1..Len(o.pdu.values) :
                        Len(o.pdu.values[i].value) = Len(call.out.list[1].value)
                /\ ~PackListResponse(o.pdu).panic

\* the error Database::read / Database::write owe for a call, 0 for none:
\* the conditions in the order of precedence
AccessOwed(c) ==
    LET need == IF c.fn = "read" THEN "READABLE" ELSE "WRITEABLE"
        perm == Permission(c.attrs[c.handle])
    IN  IF c.handle = 0 THEN EcInvalidHandle
        ELSE IF c.handle \notin DOMAIN c.attrs THEN EcAttributeNotFound
        ELSE IF need \notin perm
        THEN (IF c.fn = "read" THEN EcReadNotPermitted ELSE EcWriteNotPermitted)
        ELSE IF "AUTHORIZATION_REQUIRED" \in perm /\ ~c.authorized
        THEN EcInsufficientAuthorization
        ELSE IF "AUTHENTICATION_REQUIRED" \in perm /\ ~c.authentic
        THEN EcInsufficientAuthentication
        ELSE 0

\* C26: read(handle) and write(handle, bytes) fail at the requested handle
\* with InvalidHandle for 0x0000, else AttributeNotFound for a handle no
\* attribute has, else Read/WriteNotPermitted for a missing READABLE /
\* WRITEABLE bit, else InsufficientAuthorization, else
\* InsufficientAuthentication; with none of these they succeed
C26AccessErrorPrecedence ==
    (call.fn \in AccessFns /\ call.done) =>
        IF AccessOwed(call) = 0 THEN call.out.ok
        ELSE /\ ~call.out.ok
             /\ call.out.handle = call.handle
             /\ call.out.code = AccessOwed(call)

\* a write that lacks both authorization and authentication is refused for
\* the authorization
C26Witness ==
    /\ call.fn = "write"
    /\ call.done
    /\ call.handle = 2
    /\ call.attrs[2].permission = PermissionFlags
    /\ ~call.authorized
    /\ ~call.authentic
    /\ call.out.code = EcInsufficientAuthorization

\* the attribute handle of the read or write the log entry records
EntryHandle(e) == e.dgram[2] + 256 * e.dgram[3]

\* the datagrams of the log that are successful MTU exchanges before entry j
ExchangesBefore(j) ==
    {k \in 1..(j - 1) : log[k].op = OpExchangeMtuRequest /\ log[k].t = "ok"}

\* the receive and transmit MTU of the stream when entry j was handled
RxMtuAt(j) ==
    IF ExchangesBefore(j) = {} THEN DEFAULT_MTU
    ELSE log[Highest(ExchangesBefore(j))].server

TxMtuAt(j) ==
    IF ExchangesBefore(j) = {} THEN DEFAULT_MTU
    ELSE log[Highest(ExchangesBefore(j))].client

\* the attribute value of the write the log entry records, as received
WrittenAt(i) == Drop(Take(log[i].dgram, RxMtuAt(i)), 3)

\* the successful writes (requests and commands) to the handle before entry j
WritesBefore(j, h) ==
    {i \in 1..(j - 1) : log[i].wrote = "ok" /\ EntryHandle(log[i]) = h}

\* the position on the wire of the response to the request of entry j
ResponseIndex(j) == Cardinality({k \in 1..j : log[k].op \in RequestOps})

\* the served Read Requests whose response is on the wire and that follow
\* a successful write to the same handle, the last of which is a Write Request
ReadsAfterWrite ==
    {j \in 1..Len(log) :
        /\ log[j].op = OpReadRequest
        /\ log[j].t = "ok"
        /\ ResponseIndex(j) <= Len(wire)
        /\ WritesBefore(j, EntryHandle(log[j])) # {}
        /\ log[Highest(WritesBefore(j, EntryHandle(log[j])))].op = OpWriteRequest}

\* C27: after a successful Write Request with value b to a readable and
\* writable characteristic value, a Read Request on the same handle returns
\* exactly b, cut to the MTU less one, until the next successful write to
\* that handle
C27ReadReturnsWritten ==
    handlerKind = "gatt" =>
        \A j \in ReadsAfterWrite :
            wire[ResponseIndex(j)] =
                <<OpReadResponse>>
                \o Take(WrittenAt(Highest(WritesBefore(j, EntryHandle(log[j])))),
                        TxMtuAt(j) - 1)

\* a value of four bytes was written, the MTU lowered to four, and the read
\* that followed returned the first three bytes
C27Witness ==
    /\ handlerKind = "gatt"
    /\ \E j \in ReadsAfterWrite :
        /\ TxMtuAt(j) = 4
        /\ WrittenAt(Highest(WritesBefore(j, 3))) = <<104, 105, 106, 107>>
        /\ wire[ResponseIndex(j)] = <<OpReadResponse, 104, 105, 106>>

\* the log entries of the Write Requests, Write Commands and Signed Write
\* Commands to a tokened handle, with the given outcome of the database write
TokenedWrites(outcome) ==
    {i \in 1..Len(log) :
        /\ log[i].op \in {OpWriteRequest, OpWriteCommand, OpSignedWriteCommand}
        /\ EntryHandle(log[i]) \in DOMAIN WriteTokens
        /\ log[i].wrote = outcome}

\* C28: the subscriber gets one Write(token, bytes) event for each Write
\* Request, Write Command or Signed Write Command to a tokened handle whose
\* database write succeeds, and none for a write whose database write fails
C28EventPerSuccessfulWrite ==
    handlerKind = "gatt" =>
        /\ Len(events) = Cardinality(TokenedWrites("ok"))
        /\ \A k \in 1..Len(events) :
            \E i \in TokenedWrites("ok") :
                /\ events[k].token = WriteTokens[EntryHandle(log[i])]
                /\ events[k].value = WrittenAt(i)

\* the Read Requests and Write Requests the log records for a readable and
\* writable attribute that requires authentication and no authorization
AuthenticatedAccesses ==
    {i \in 1..Len(log) :
        /\ log[i].op \in {OpReadRequest, OpWriteRequest}
        /\ EntryHandle(log[i]) \in DOMAIN db
        /\ Permission(db[EntryHandle(log[i])]) =
                {"READABLE", "WRITEABLE", "AUTHENTICATION_REQUIRED"}}

\* C29: a Read Request or a Write Request for an attribute with
\* AUTHENTICATION_REQUIRED is refused with InsufficientAuthentication when
\* the connection's authenticated flag is false as the request is handled,
\* and served once Authenticator::mark_authenticated has set the flag
C29AuthenticationGate ==
    handlerKind = "gatt" =>
        \A i \in AuthenticatedAccesses :
            IF log[i].auth THEN log[i].t = "ok"
            ELSE /\ log[i].t = "err"
                 /\ log[i].code = EcInsufficientAuthentication
                 /\ log[i].handle = EntryHandle(log[i])

\* C30: decoding the encoding of a PDU yields the PDU, for every value of
\* every PDU type, the Read By Type Request and the Read By Group Type
\* Request with a 16 bit and with a 128 bit attribute type included
C30DecodeOfEncode ==
    (call.fn = "codec" /\ call.done) => (call.out.ok /\ call.out.pdu = call.pdu)

\* the bytes of the PDU that is in the egress buffer and not yet written
PendingPdu == Take(txbuf, txlen)

\* C31: a PDU is placed into the egress buffer only when the previous PDU
\* has been flushed completely: while a PDU is pending, whatever the run
\* loop and the writers do, no byte of it is replaced by a byte of another
\* PDU (set_txmtu may shorten the buffer under it) until it is written
C31PendingPduKept ==
    [][txlen # 0 =>
        (txlen' = 0 \/ (txlen' = txlen /\ IsPrefix(PendingPdu', PendingPdu)))]_vars

\* an indication waits in the egress buffer for the full socket, and a
\* second writer and the run loop have both found the buffer occupied
C31Witness ==
    /\ txlen # 0
    /\ PendingPdu = <<OpHandleValueIndication, 1, 0, 111, 107>>
    /\ "run" \in txwaker
    /\ "n1" \in txwaker

\* C32: for every PDU sent, the bytes delivered to the transport are
\* exactly the PDU's encoding, once, also when the transport accepts the
\* egress buffer in several partial writes
C32FlushedBytesAreThePdu ==
    (call.fn = "poll_flush" /\ call.txlen = 0) => call.written = PackWithCode(call.pdu)

\* the indication write waits for its confirmation
Awaiting ==
    /\ wCall[LiveWriter] = "pending"
    /\ wState[LiveWriter] = "AwaitConfirmation"
    /\ chan[LiveWriter] = "open"

\* a datagram the peer sent is not handled yet, or what a handled one was
\* answered with is not on the transport yet
Backlog == Len(log) < sent \/ Len(Responses(wire)) < AnsweredUpTo(Len(log))

\* C33: while an indication awaits its confirmation, the run loop still
\* handles the incoming requests and emits their responses: the datagrams
\* received during the wait are handled and answered, unless the wait or
\* the run future ends first
C33WaitDoesNotBlockIngress ==
    (Awaiting /\ Backlog /\ runResult = "running")
        ~> (~Backlog \/ ~Awaiting \/ runResult # "running")

\* the indication is on the transport and unconfirmed, and the response to
\* a request handled since has followed it
C33Witness ==
    /\ Awaiting
    /\ runResult = "running"
    /\ Len(wire) = 2
    /\ wire[1][1] = OpHandleValueIndication
    /\ IsResponse(wire[2])
    /\ confSent = 0

\* C34: after truncation to mtu, the encoded size of a Prepare Write
\* Response (opcode, handle, offset, part value) is at most mtu: the part
\* value is cut to at most mtu - 5 bytes
C34PrepareWriteFits ==
    (call.fn = "truncate_prepare" /\ call.done /\ call.mtu >= 5) =>
        /\ Len(PackWithCode(call.out)) <= call.mtu
        /\ Len(call.out.part_attribute_value) <= call.mtu - 5

\* C35: a write to a Client or Server Characteristic Configuration
\* descriptor whose value is not exactly 2 bytes long fails with
\* InvalidAttributeValueLength and leaves the stored configuration unchanged
C35ConfigurationLengthChecked ==
    (call.fn = "write_configuration" /\ call.done /\ Len(call.val) # 2) =>
        /\ ~call.out.ok
        /\ call.out.code = EcInvalidAttributeValueLength
        /\ call.out.attrs = call.attrs

\* C36: with the tasks scheduled fairly and the socket draining, a sender
\* that found the egress buffer occupied (poll_ready returned Pending), the
\* run loop sending a response or a writer, is eventually woken and gets its
\* PDU sent: no received request stays unanswered forever
C36BlockedSenderIsWoken ==
    /\ ("run" \in txwaker /\ runResult = "running")
            ~> (runPc # "send" \/ runResult # "running")
    /\ (LiveWriter \in txwaker /\ wCall[LiveWriter] = "pending")
            ~> (wCall[LiveWriter] # "pending" \/ runResult # "running")

(***************************************************************************)
(* Database::write on its own: a service at 0x0001 and, at 0x0002, a        *)
(* characteristic value or a Client Characteristic Configuration descriptor *)
(* with every permission; handles 0x0000 and 0x0003 have no attribute.      *)
(* Attribute::set works on the attribute in place (attrs.get_mut), so the   *)
(* database after a failed write holds whatever set left behind.  The       *)
(* lookups take &self: their operators have no database to give back.       *)
(***************************************************************************)
WriteDbs ==
    {(1 :> [variant |-> "Service", permission |-> {"READABLE"}, value |-> <<0, 24>>])
     @@ (2 :> [variant |-> "CharacteristicValue", permission |-> p, value |-> <<7>>]) :
        p \in SUBSET PermissionFlags}
    \cup
    {(1 :> [variant |-> "Service", permission |-> {"READABLE"}, value |-> <<0, 24>>])
     @@ (2 :> [variant |-> "ClientCharacteristicConfiguration", permission |-> p,
               configuration |-> {"NOTIFICATION"}]) :
        p \in SUBSET PermissionFlags}

WriteValues == {<<>>, <<2>>, <<2, 0>>}

InitWrite ==
    /\ handlerKind = "default"
    /\ InitCommon
    /\ reg = RegistrationNew
    /\ \E d \in WriteDbs, h \in AccessHandles, v \in WriteValues,
          z \in BOOLEAN, n \in BOOLEAN :
            call = [fn |-> "write_frame", attrs |-> d, handle |-> h, val |-> v,
                    authorized |-> z, authentic |-> n,
                    done |-> FALSE, out |-> [ok |-> FALSE]]

\* db.write(handle, val, authorized, authenticated)
ApplyWrite ==
    /\ call.fn = "write_frame"
    /\ ~call.done
    /\ call' = [call EXCEPT !.done = TRUE,
                            !.out = DatabaseWrite(call.attrs, call.handle, call.val,
                                                  call.authorized, call.authentic)]
    /\ UNCHANGED <<reg, connVars>>

NextWrite == ApplyWrite

SpecWrite == InitWrite /\ [][NextWrite]_vars

BlobDatagrams ==
    {<<OpReadBlobRequest, 3, 0, 0, 0>>, <<OpReadBlobRequest, 3, 0, 2, 0>>,
     <<OpReadBlobRequest, 3, 0, 3, 0>>, <<OpReadBlobRequest, 1, 0, 1, 0>>,
     <<OpReadBlobRequest, 5, 0, 9, 0>>, <<OpWriteRequest, 3, 0, 104, 105>>}

BlobPeerSend ==
    /\ sent < MaxRequests
    /\ \E d \in BlobDatagrams : ingress' = Append(ingress, d)
    /\ sent' = sent + 1
    /\ UNCHANGED <<libVars, eof, confSent, gattVars, sockVars, streamVars, runVars,
                   writerVars>>

NextBlob ==
    \/ BlobPeerSend
    \/ RunNext
    \/ RunSend
    \/ RunFlush

SpecBlob == InitGatt /\ [][NextBlob]_vars

\* the value of the attribute when entry j of the log was handled
ValueAt(j, h) ==
    IF WritesBefore(j, h) = {} THEN InitDb[h].value
    ELSE WrittenAt(Highest(WritesBefore(j, h)))

\* the offset of the Read Blob Request of a log entry
EntryOffset(e) == e.dgram[4] + 256 * e.dgram[5]

\* the handled Read Blob Requests on an attribute of the database whose
\* offset is greater than the length of the attribute's value
ReadsPastTheEnd ==
    {j \in 1..Len(log) :
        /\ log[j].op = OpReadBlobRequest
        /\ EntryHandle(log[j]) \in DOMAIN InitDb
        /\ EntryOffset(log[j]) > Len(ValueAt(j, EntryHandle(log[j])))}

\* C38: a Read Blob Request whose offset is greater than the length of the
\* attribute's value is answered with an Error Response, and run goes on
C38ReadBlobPastTheEnd ==
    handlerKind = "gatt" =>
        \A j \in ReadsPastTheEnd : log[j].t = "err" /\ runResult # "panic"

\* the positions in MatchingKeys of the attributes whose value is the one
\* find_by_type_value is asked for
ValueMatches ==
    {i \in 1..Len(MatchingKeys) : call.attrs[MatchingKeys[i]].value = <<0, 24>>}

\* C39: for a valid range, find_by_type_value returns every attribute in the
\* range whose type is the requested type and whose value is the requested
\* value, each with the end of its group, whatever the lengths of the values
\* of the other attributes of that type; it returns AttributeNotFound only
\* when the range holds no such attribute
C39FindByTypeValueComplete ==
    (call.fn = "find_by_type_value" /\ call.done /\ ValidRange) =>
        IF ValueMatches = {}
        THEN call.out = [ok |-> FALSE, handle |-> call.range.start,
                         code |-> EcAttributeNotFound]
        ELSE /\ call.out.ok
             /\ Len(call.out.list) = Cardinality(ValueMatches)
             /\ {call.out.list[k] : k \in 1..Len(call.out.list)}
                    = {[handle |-> MatchingKeys[i], end |-> GroupEnd(i)] :
                            i \in ValueMatches}

\* C40: truncating a Find Information, Find By Type Value, Read By Type or
\* Read By Group Type response with at least one entry to the working MTU
\* leaves at least one entry in it
C40TruncatedListNotEmpty ==
    (call.fn = "truncate" /\ call.done /\ ~call.panic /\ call.pdu.values # <<>>) =>
        call.out.values # <<>>

====
